---- MODULE Spec2Model ----
(***************************************************************************)
(* Freeze-Dried Data: the writer (WFDD), its row setters (FDDSetter), the  *)
(* packed indices (efficient_index.py) and the reader (RFDDImpl) over one  *)
(* file path.  The file is a sequence of bytes; offsets are 0-based as in  *)
(* the source, sequences are 1-based as in TLA+.                           *)
(***************************************************************************)
EXTENDS Integers, Sequences, FiniteSets, TLC

VARIABLES
  exists,               \* os.path.exists(filename)
  wstate,               \* "none" | "open" | "closed": the WFDD object
  disk,                 \* the bytes of the file
  pos,                  \* self.file.tell() of the writer's handle
  index,                \* WFDD.index, the live row index
  setters,              \* every FDDSetter object of the writer: [key, data, finalized]
  unfinished_setters,   \* WFDD.unfinished_setters: <<[k, v]>>, v a setter id
  split_to_index,       \* WFDD.split_to_index: <<[k, v]>>, v an index
  custom_properties,    \* WFDD.custom_properties: <<[k, v]>>
  columns,              \* WFDD.columns: None or Some(<<names>>)
  column_def,           \* WFDD.column_def: None or Some(<<[name, codec]>>)
  column_to_serialize,  \* WFDD.column_to_serialize: None or Some(<<codec>>)
  allow_cell_modification,
  err,                  \* the exception the last operation raised, or "ok"
  session,              \* writers opened on the file since it was created
  fresh,                \* the writer was reopened and nothing was done since
  nrows,                \* history: rows the writers started to append
  written,              \* history: every row appended and entered in the index
  hsplits,              \* history: the key list each split was built from
  reader,               \* the RFDDImpl object opened on the path, if any
  dest,                 \* a writer on a second path, to which rows are copied
  fork                  \* after os.fork(): the file offsets of parent and child

wvars == << disk, pos, index, setters, unfinished_setters, split_to_index,
            custom_properties, columns, column_def, column_to_serialize,
            allow_cell_modification, nrows, written, hsplits >>

vars == << exists, wstate, err, session, fresh, wvars, reader, dest, fork >>

----------------------------------------------------------------------------
(* Bounds of the model *)

MaxRows == 2          \* rows appended plus setters pending, over all sessions

(* Program constants *)

ByteWidth == 6        \* byte_width=6, the default of every index class
TrailerLen == 8       \* the footer holding the section table's length

Min(a, b) == IF a <= b THEN a ELSE b

----------------------------------------------------------------------------
(* Optional values (Python None), cell values and results *)

None == << >>
Some(x) == << x >>
The(o) == o[1]

NoneVal == << "none", << >> >>          \* the value None
Str(s) == << "str", s >>                \* a str value with the given UTF-8 bytes
ErrVal(e) == << "raise", << >>, e >>    \* a read that raised e

----------------------------------------------------------------------------
(* Bytes and files *)

RECURSIVE ToBytes(_, _)
ToBytes(n, w) == IF w = 0 THEN << >> ELSE << n % 256 >> \o ToBytes(n \div 256, w - 1)

RECURSIVE FromBytes(_)
FromBytes(b) == IF b = << >> THEN 0 ELSE b[1] + 256 * FromBytes(Tail(b))

\* file.seek(p); file.write(data) on a file opened in a '+' mode
WriteAt(f, p, data) ==
  SubSeq(f, 1, p) \o data \o SubSeq(f, p + Len(data) + 1, Len(f))

\* file.seek(start); file.read(end - start)
read_chunk(f, start, end) == SubSeq(f, start + 1, Min(end, Len(f)))

----------------------------------------------------------------------------
(* Codecs: type_to_serializer / type_to_deserializer.  pickle is framed as  *)
(* PROTO, an opcode, the payload and STOP, so that it never yields b''.     *)

Pickle(v) ==
  << 128 >> \o (IF v = NoneVal THEN << 78 >> ELSE << 88, Len(v[2]) >> \o v[2]) \o << 46 >>

Unpickle(b) ==
  IF Len(b) = 0 THEN ErrVal("EOFError")
  ELSE IF b = << 128, 78, 46 >> THEN NoneVal
  ELSE IF /\ Len(b) >= 4 /\ b[1] = 128 /\ b[2] = 88 /\ b[Len(b)] = 46
          /\ b[3] = Len(b) - 4
       THEN Str(SubSeq(b, 4, Len(b) - 1))
  ELSE ErrVal("UnpicklingError")

type_to_serializer(t, v) == IF t = "str" THEN v[2] ELSE Pickle(v)

type_to_deserializer(t, b) == IF t = "str" THEN Str(b) ELSE Unpickle(b)

----------------------------------------------------------------------------
(* efficient_index.py.  An index is [kind, keys, buffer, num_vals,          *)
(* byte_width]: kind "general" keeps keys in dict order (a key's slot is    *)
(* its position), "comparable" keeps _keys sorted, "keyless" has no keys.   *)

\* FDDIntList.__getitem__ for every position of the row at `slot`
FDDIntList(ix, slot) ==
  [ i \in 1..ix.num_vals |->
      FromBytes(SubSeq(ix.buffer,
                       (slot * ix.num_vals + (i - 1)) * ix.byte_width + 1,
                       (slot * ix.num_vals + i) * ix.byte_width)) ]

RECURSIVE PackVals(_, _)
PackVals(val, bw) ==
  IF val = << >> THEN << >> ELSE ToBytes(Head(val), bw) \o PackVals(Tail(val), bw)

FDDIndexGeneral(num_vals) ==
  [ kind |-> "general", keys |-> << >>, buffer |-> << >>,
    num_vals |-> num_vals, byte_width |-> ByteWidth ]

FDDIndexKeyless(num_vals) ==
  [ kind |-> "keyless", keys |-> << >>, buffer |-> << >>,
    num_vals |-> num_vals, byte_width |-> ByteWidth ]

SeqToSet(s) == { s[i] : i \in 1..Len(s) }

Reverse(q) == [ i \in 1..Len(q) |-> q[Len(q) + 1 - i] ]

PosOf(s, k) == CHOOSE i \in 1..Len(s) : s[i] = k

IdxLen(ix) ==
  IF ix.kind = "keyless" THEN Len(ix.buffer) \div (ix.num_vals * ix.byte_width)
  ELSE Len(ix.keys)

\* keys()
IdxKeys(ix) ==
  IF ix.kind = "keyless" THEN [ i \in 1..IdxLen(ix) |-> i - 1 ] ELSE ix.keys

\* __contains__
IdxContains(ix, k) ==
  IF ix.kind = "keyless" THEN k < IdxLen(ix) /\ k >= 0
  ELSE k \in SeqToSet(ix.keys)

\* __getitem__ for a key the index contains, as a tuple of offsets
IdxGet(ix, k) ==
  IF ix.kind = "keyless" THEN FDDIntList(ix, k)
  ELSE FDDIntList(ix, PosOf(ix.keys, k) - 1)

\* int.to_bytes(bw, 'little') raises OverflowError for a negative value and
\* for one that needs more than bw bytes
RECURSIVE FitsIn(_, _)
FitsIn(v, bw) == IF bw = 0 THEN v = 0 ELSE v >= 0 /\ FitsIn(v \div 256, bw - 1)

\* for i in val: buffer.extend(i.to_bytes(byte_width, 'little')); the values
\* before the first that does not fit stay appended
RECURSIVE ExtendVals(_, _, _)
ExtendVals(buffer, val, bw) ==
  IF val = << >> THEN [ ok |-> TRUE, buffer |-> buffer ]
  ELSE IF ~FitsIn(Head(val), bw) THEN [ ok |-> FALSE, buffer |-> buffer ]
  ELSE ExtendVals(buffer \o ToBytes(Head(val), bw), Tail(val), bw)

\* buffer[a:b] = data of a bytearray: a negative bound counts from the end,
\* both bounds are clipped to the buffer, and a slice that ends before it
\* starts is the empty slice at its start
SliceBound(x, n) == IF x < 0 THEN (IF x + n < 0 THEN 0 ELSE x + n) ELSE Min(x, n)

SliceAssign(buffer, a, b, data) ==
  SubSeq(buffer, 1, SliceBound(a, Len(buffer)))
    \o data
    \o SubSeq(buffer,
              (IF SliceBound(b, Len(buffer)) < SliceBound(a, Len(buffer))
               THEN SliceBound(a, Len(buffer)) ELSE SliceBound(b, Len(buffer))) + 1,
              Len(buffer))

\* for i, v in enumerate(val): buffer[base + i*bw : base + (i+1)*bw] = v.to_bytes(...)
\* from the i-th value on; the values before the first that does not fit
\* stay written
RECURSIVE AssignVals(_, _, _, _, _)
AssignVals(buffer, base, val, i, bw) ==
  IF i = Len(val) THEN [ ok |-> TRUE, buffer |-> buffer ]
  ELSE IF ~FitsIn(val[i + 1], bw) THEN [ ok |-> FALSE, buffer |-> buffer ]
  ELSE AssignVals(SliceAssign(buffer, base + i * bw, base + (i + 1) * bw,
                              ToBytes(val[i + 1], bw)),
                  base, val, i + 1, bw)

\* the index as one of the two loops leaves it
SetResult(ix, e) ==
  [ ok |-> e.ok, err |-> IF e.ok THEN "ok" ELSE "OverflowError",
    ix |-> [ ix EXCEPT !.buffer = e.buffer ] ]

\* FDDIndexGeneral.__setitem__: a new key is registered before its values
\* are appended
GeneralSetItem(ix, k, val) ==
  IF Len(val) # ix.num_vals THEN [ ok |-> FALSE, err |-> "ValueError", ix |-> ix ]
  ELSE IF k \notin SeqToSet(ix.keys)
       THEN SetResult([ ix EXCEPT !.keys = Append(@, k) ],
                      ExtendVals(ix.buffer, val, ix.byte_width))
       ELSE SetResult(ix, AssignVals(ix.buffer,
                                     (PosOf(ix.keys, k) - 1) * ix.num_vals * ix.byte_width,
                                     val, 0, ix.byte_width))

\* FDDIndexKeyless.__setitem__: an index below the length, a negative one
\* included, goes to the slice assignments
KeylessSetItem(ix, idx, val) ==
  IF idx = IdxLen(ix)
  THEN SetResult(ix, ExtendVals(ix.buffer, val, ix.byte_width))
  ELSE IF idx > IdxLen(ix) THEN [ ok |-> FALSE, err |-> "IndexError", ix |-> ix ]
  ELSE SetResult(ix, AssignVals(ix.buffer, idx * ix.num_vals * ix.byte_width,
                                val, 0, ix.byte_width))

\* FDDIndexKeyless.__getitem__
KeylessGetItem(ix, idx) ==
  IF idx >= IdxLen(ix) \/ idx < 0 THEN ErrVal("IndexError")
  ELSE << "row", FDDIntList(ix, idx) >>

\* index[key] = val for the three classes; FDDIndexComparableKey defines no
\* __setitem__
IdxSetItem(ix, k, val) ==
  CASE ix.kind = "general" -> GeneralSetItem(ix, k, val)
    [] ix.kind = "keyless" -> KeylessSetItem(ix, k, val)
    [] OTHER -> [ ok |-> FALSE, err |-> "TypeError", ix |-> ix ]

\* list.sort() of the keys
RECURSIVE SortKeys(_)
SortKeys(S) ==
  IF S = {} THEN << >>
  ELSE LET m == CHOOSE x \in S : \A y \in S : x <= y
       IN  << m >> \o SortKeys(S \ {m})

\* FDDIndexComparableKey.__init__ from a dict given as <<[k, v]>>; an empty
\* dict raises IndexError at self._keys[0]
RECURSIVE PackRows(_, _, _)
PackRows(ks, d, bw) ==
  IF ks = << >> THEN << >>
  ELSE LET e == CHOOSE i \in 1..Len(d) : d[i].k = Head(ks)
       IN  PackVals(d[e].v, bw) \o PackRows(Tail(ks), d, bw)

FDDIndexComparableKey(d) ==
  IF d = << >> THEN [ ok |-> FALSE, err |-> "IndexError", ix |-> FDDIndexGeneral(0) ]
  ELSE LET ks == SortKeys({ d[i].k : i \in 1..Len(d) })
           nv == Len((CHOOSE e \in SeqToSet(d) : e.k = ks[1]).v)
       IN  [ ok |-> TRUE, err |-> "ok",
             ix |-> [ kind |-> "comparable", keys |-> ks,
                      buffer |-> PackRows(ks, d, ByteWidth),
                      num_vals |-> nv, byte_width |-> ByteWidth ] ]

\* dict[k] = v on a dict given as <<[k, v]>> in insertion order
DictSet(d, k, v) ==
  IF \E i \in 1..Len(d) : d[i].k = k
  THEN [ i \in 1..Len(d) |-> IF d[i].k = k THEN [ k |-> k, v |-> v ] ELSE d[i] ]
  ELSE Append(d, [ k |-> k, v |-> v ])

DictHas(d, k) == \E i \in 1..Len(d) : d[i].k = k
DictGet(d, k) == (CHOOSE e \in SeqToSet(d) : e.k = k).v
DictDel(d, k) == SelectSeq(d, LAMBDA e : e.k # k)

----------------------------------------------------------------------------
(* The system serializer (pkl.dumps / pkl.loads by default) for the file's  *)
(* metadata, framed like the cell pickles: PROTO, a type opcode, the        *)
(* content, STOP.  Names travel as one byte each.                           *)

Names == { "a", "b", "z", "s", "t", "p", "q", "all_rows", "" }

NameCode(n) ==
  CASE n = "a" -> 97 [] n = "b" -> 98 [] n = "z" -> 122 [] n = "s" -> 115
    [] n = "t" -> 116 [] n = "p" -> 112 [] n = "q" -> 113 [] n = "all_rows" -> 65
    [] OTHER -> 0

CodeName(c) == CHOOSE n \in Names : NameCode(n) = c

CodecCode(t) == IF t = "str" THEN 1 ELSE 2
CodeCodec(c) == IF c = 1 THEN "str" ELSE "any"

KindCode(k) == IF k = "general" THEN 71 ELSE 67
CodeKind(c) == IF c = 71 THEN "general" ELSE "comparable"

Framed(op, body) == << 128, op >> \o body \o << 46 >>
IsFramed(b, op) == Len(b) >= 3 /\ b[1] = 128 /\ b[2] = op /\ b[Len(b)] = 46
Body(b) == SubSeq(b, 3, Len(b) - 1)

\* a general or comparable index object
DumpIndex(ix) ==
  Framed(KindCode(ix.kind),
         << ix.num_vals, ix.byte_width, Len(ix.keys) >> \o ix.keys \o ix.buffer)

LoadIndex(b) ==
  IF ~(IsFramed(b, 71) \/ IsFramed(b, 67)) \/ Len(b) < 6
  THEN [ ok |-> FALSE, ix |-> FDDIndexGeneral(0) ]
  ELSE LET c == Body(b)
           n == c[3]
       IN  IF Len(c) # 3 + n + n * c[1] * c[2]
           THEN [ ok |-> FALSE, ix |-> FDDIndexGeneral(0) ]
           ELSE [ ok |-> TRUE,
                  ix |-> [ kind |-> CodeKind(b[2]), keys |-> SubSeq(c, 4, 3 + n),
                           buffer |-> SubSeq(c, 4 + n, Len(c)),
                           num_vals |-> c[1], byte_width |-> c[2] ] ]

\* a property value (a small integer)
DumpProp(v) == Framed(75, << v >>)
LoadProp(b) == IF IsFramed(b, 75) /\ Len(b) = 4 THEN b[3] ELSE -1

\* the tuple of column names
DumpColumns(cols) == Framed(84, [ i \in 1..Len(cols) |-> NameCode(cols[i]) ])
LoadColumns(b) ==
  IF IsFramed(b, 84)
  THEN [ ok |-> TRUE, v |-> [ i \in 1..Len(b) - 3 |-> CodeName(Body(b)[i]) ] ]
  ELSE [ ok |-> FALSE, v |-> << >> ]

\* the column definition, a dict name -> codec name
RECURSIVE DumpPairs(_)
DumpPairs(cd) ==
  IF cd = << >> THEN << >>
  ELSE << NameCode(Head(cd).name), CodecCode(Head(cd).codec) >> \o DumpPairs(Tail(cd))

DumpColumnDef(cd) == Framed(68, DumpPairs(cd))
LoadColumnDef(b) ==
  IF IsFramed(b, 68) /\ (Len(b) - 3) % 2 = 0
  THEN [ ok |-> TRUE,
         v |-> [ i \in 1..((Len(b) - 3) \div 2) |->
                   [ name |-> CodeName(Body(b)[2 * i - 1]),
                     codec |-> CodeCodec(Body(b)[2 * i]) ] ] ]
  ELSE [ ok |-> FALSE, v |-> << >> ]

\* index_index, the section table: a dict tagged name -> (start, end), here
\* <<[tag, name, start, end]>> in dict order
TagCode(t) ==
  CASE t = "_split_" -> 83 [] t = "_prop_" -> 80 [] t = "_columns_" -> 67 [] OTHER -> 68
CodeTag(c) ==
  CASE c = 83 -> "_split_" [] c = 80 -> "_prop_" [] c = 67 -> "_columns_"
    [] OTHER -> "_column_def_"

RECURSIVE DumpEntries(_)
DumpEntries(ii) ==
  IF ii = << >> THEN << >>
  ELSE << TagCode(Head(ii).tag), NameCode(Head(ii).name) >>
         \o ToBytes(Head(ii).start, 2) \o ToBytes(Head(ii).end, 2)
         \o DumpEntries(Tail(ii))

DumpIndexIndex(ii) == Framed(73, DumpEntries(ii))
LoadIndexIndex(b) ==
  IF IsFramed(b, 73) /\ (Len(b) - 3) % 6 = 0
  THEN [ ok |-> TRUE,
         v |-> [ i \in 1..((Len(b) - 3) \div 6) |->
                   LET e == SubSeq(Body(b), 6 * i - 5, 6 * i)
                   IN  [ tag |-> CodeTag(e[1]), name |-> CodeName(e[2]),
                         start |-> FromBytes(SubSeq(e, 3, 4)),
                         end |-> FromBytes(SubSeq(e, 5, 6)) ] ] ]
  ELSE [ ok |-> FALSE, v |-> << >> ]

\* a keyless split on disk: the marker byte 0x01, then the packed buffer
KeylessMarker == << 1 >>
write_index_bytes(ix) == ix.buffer

\* FDDOnDiskIndex(parent, start + 1).get_keyless_index(): the packed buffer
\* that follows the marker, read with the parent's number of columns
get_keyless_index(bytes, num_vals) ==
  [ kind |-> "keyless", keys |-> << >>, buffer |-> bytes,
    num_vals |-> num_vals, byte_width |-> ByteWidth ]

----------------------------------------------------------------------------
(* The writer.  Handlers are operators from the writer's state w (a record  *)
(* of the variables a handler can touch) to [w, err]: the state it leaves   *)
(* and the exception it raises ("ok" for none).                             *)

Ret(w, e) == [ w |-> w, err |-> e ]

EmptyDict == [ c \in {} |-> NoneVal ]
DictItem(d) == [ kind |-> "dict", d |-> d, t |-> << >>, v |-> NoneVal ]
TupleItem(t) == [ kind |-> "tuple", d |-> EmptyDict, t |-> t, v |-> NoneVal ]
ValueItem(v) == [ kind |-> "value", d |-> EmptyDict, t |-> << >>, v |-> v ]

num_vals_of(cols) == IF cols # None THEN Len(The(cols)) + 1 ELSE 2

\* the loop of WFDD.__setitem__ that serializes and writes the cells of one
\* row; acc is [disk, pos, positions, err]
RECURSIVE WriteCells(_, _, _, _)
WriteCells(w, item, i, acc) ==
  IF i > Len(item) THEN acc
  ELSE IF item[i] = NoneVal
       THEN WriteCells(w, item, i + 1, [ acc EXCEPT !.positions = Append(@, acc.pos) ])
  ELSE IF w.columns # None /\ i > Len(The(w.column_to_serialize))
       THEN [ acc EXCEPT !.err = "IndexError" ]
  ELSE LET data == IF w.columns # None
                   THEN type_to_serializer(The(w.column_to_serialize)[i], item[i])
                   ELSE Pickle(item[i])
           npos == acc.pos + Len(data)
       IN  WriteCells(w, item, i + 1,
                      [ acc EXCEPT !.disk = WriteAt(@, acc.pos, data),
                                   !.pos = npos,
                                   !.positions = Append(@, npos) ])

\* the tail of WFDD.__setitem__: write the cells, then record the positions
AppendRow(w, key, item) ==
  LET r == WriteCells(w, item, 1,
                      [ disk |-> w.disk, pos |-> w.pos,
                        positions |-> << w.pos >>, err |-> "ok" ])
      w1 == [ w EXCEPT !.disk = r.disk, !.pos = r.pos, !.nrows = @ + 1 ]
      s == IdxSetItem(w.index, key, r.positions)
  IN  IF r.err # "ok" THEN Ret(w1, r.err)
      ELSE IF ~s.ok THEN Ret(w1, s.err)
      ELSE Ret([ w1 EXCEPT !.index = s.ix,
                           !.written = Append(@, [ key |-> key, item |-> item,
                                                   offsets |-> r.positions ]) ],
               "ok")

\* WFDD.__setitem__ without the test for dict keys that are no columns: the
\* cells are taken with item.get(col) and the other keys are dropped
setitem_dropping_unknown(w, key, item) ==
  IF IdxContains(w.index, key) THEN Ret(w, "KeyError")
  ELSE IF w.columns = None THEN AppendRow(w, key, << item.v >>)
  ELSE LET cols == The(w.columns) IN
    CASE item.kind = "dict" ->
           IF \A i \in 1..Len(cols) : cols[i] \notin DOMAIN item.d
           THEN Ret(w, "ValueError")
           ELSE AppendRow(w, key,
                          [ i \in 1..Len(cols) |->
                              IF cols[i] \in DOMAIN item.d THEN item.d[cols[i]]
                              ELSE NoneVal ])
      [] item.kind = "tuple" ->
           IF Len(item.t) # Len(cols) THEN Ret(w, "ValueError")
           ELSE AppendRow(w, key, item.t)
      [] OTHER -> Ret(w, "ValueError")

\* WFDD.__setitem__ for a value (schemaless), a dict or a tuple
WFDD_setitem(w, key, item) ==
  IF IdxContains(w.index, key) THEN Ret(w, "KeyError")
  ELSE IF w.columns = None THEN AppendRow(w, key, << item.v >>)
  ELSE LET cols == The(w.columns) IN
    CASE item.kind = "dict" ->
           IF \A i \in 1..Len(cols) : cols[i] \notin DOMAIN item.d
           THEN Ret(w, "ValueError")
           ELSE IF \E c \in DOMAIN item.d : c \notin SeqToSet(cols)
           THEN Ret(w, "ValueError")
           ELSE AppendRow(w, key,
                          [ i \in 1..Len(cols) |->
                              IF cols[i] \in DOMAIN item.d THEN item.d[cols[i]]
                              ELSE NoneVal ])
      [] item.kind = "tuple" ->
           IF Len(item.t) # Len(cols) THEN Ret(w, "ValueError")
           ELSE AppendRow(w, key, item.t)
      [] OTHER -> Ret(w, "ValueError")

\* the loop of WFDD.__setitem__ for an item that is a row view v = [index,
\* cache] whose parent reads the file src: a cell the cache holds is
\* serialized with the writer's serializer, any other is read from the parent
\* as raw bytes; acc is [disk, pos, positions, err]
RECURSIVE CopyCells(_, _, _, _, _)
CopyCells(w, v, src, i, acc) ==
  IF i > Len(The(w.columns)) THEN acc
  ELSE IF i > Len(v.cache) THEN [ acc EXCEPT !.err = "IndexError" ]
  ELSE LET data == IF v.cache[i] # NoneVal
                   THEN type_to_serializer(The(w.column_to_serialize)[i], v.cache[i])
                   ELSE read_chunk(src, v.index[i], v.index[i + 1])
           npos == acc.pos + Len(data)
       IN  CopyCells(w, v, src, i + 1,
                     [ acc EXCEPT !.disk = WriteAt(@, acc.pos, data),
                                  !.pos = npos,
                                  !.positions = Append(@, npos) ])

\* WFDD.__setitem__ of a writer with columns for an item that is a row view;
\* the history takes the cell cache for the item
WFDD_setitem_row(w, key, v, src) ==
  IF IdxContains(w.index, key) THEN Ret(w, "KeyError")
  ELSE LET r == CopyCells(w, v, src, 1,
                          [ disk |-> w.disk, pos |-> w.pos,
                            positions |-> << w.pos >>, err |-> "ok" ])
           w1 == [ w EXCEPT !.disk = r.disk, !.pos = r.pos, !.nrows = @ + 1 ]
           s == IdxSetItem(w.index, key, r.positions)
       IN  IF r.err # "ok" THEN Ret(w1, r.err)
           ELSE IF ~s.ok THEN Ret(w1, s.err)
           ELSE Ret([ w1 EXCEPT !.index = s.ix,
                                !.written = Append(@, [ key |-> key, item |-> v.cache,
                                                        offsets |-> r.positions ]) ],
                    "ok")

\* the rest of FDDSetter.finalize once parent[key] = data has left r:
\* del parent.unfinished_setters[key], then finalized = True
finalize_rest(r, sid, key) ==
  IF r.err # "ok" THEN r
  ELSE IF ~DictHas(r.w.unfinished_setters, key) THEN Ret(r.w, "KeyError")
  ELSE Ret([ r.w EXCEPT !.unfinished_setters = DictDel(@, key),
                        !.setters[sid].finalized = TRUE ],
           "ok")

\* FDDSetter.finalize
finalize(w, sid) ==
  finalize_rest(WFDD_setitem(w, w.setters[sid].key, DictItem(w.setters[sid].data)),
                sid, w.setters[sid].key)

\* the branch of FDDSetter.__setattr__ taken once the setter is finalized and
\* the writer allows cell modification: [ok, err]
FinalizedSetterWrite(w, sid, name, value) ==
  LET st == w.setters[sid]
      cols == The(w.columns)
  IN  IF ~IdxContains(w.index, st.key) THEN "KeyError"
      ELSE IF name \notin SeqToSet(cols) THEN "ValueError"
      ELSE LET row_index == IdxGet(w.index, st.key)
               position == PosOf(cols, name) - 1
           IN  IF position + 1 >= Len(row_index) THEN "IndexError"
               ELSE IF position + 1 > Len(The(w.column_to_serialize)) THEN "IndexError"
               ELSE IF value = NoneVal /\ The(w.column_to_serialize)[position + 1] = "str"
                    THEN "AttributeError"
               ELSE LET existing_start == row_index[position + 2]
                        existing_end == row_index[position + 2]
                        value_bytes ==
                          type_to_serializer(The(w.column_to_serialize)[position + 1], value)
                    IN  IF Len(value_bytes) = existing_end - existing_start
                        THEN "ok"   \* writes the zero bytes of value_bytes
                        ELSE "ValueError"

\* FDDSetter.__setattr__ without the finalize() at the last column
setattr_never_finalizing(w, sid, name, value) ==
  LET st == w.setters[sid]
      pre == IF ~st.finalized THEN "ok"
             ELSE IF ~w.allow_cell_modification THEN "AttributeError"
             ELSE FinalizedSetterWrite(w, sid, name, value)
  IN  IF pre # "ok" THEN Ret(w, pre)
      ELSE IF name \notin SeqToSet(The(w.columns)) THEN Ret(w, "AttributeError")
      ELSE Ret([ w EXCEPT !.setters[sid].data =
                   [ c \in DOMAIN st.data \cup { name } |->
                       IF c = name THEN value ELSE st.data[c] ] ], "ok")

\* FDDSetter.__setattr__ for a column name
FDDSetter_setattr(w, sid, name, value) ==
  LET st == w.setters[sid]
      pre == IF ~st.finalized THEN "ok"
             ELSE IF ~w.allow_cell_modification THEN "AttributeError"
             ELSE FinalizedSetterWrite(w, sid, name, value)
  IN  IF pre # "ok" THEN Ret(w, pre)
      ELSE IF name \notin SeqToSet(The(w.columns)) THEN Ret(w, "AttributeError")
      ELSE LET data == [ c \in DOMAIN st.data \cup { name } |->
                           IF c = name THEN value ELSE st.data[c] ]
               w1 == [ w EXCEPT !.setters[sid].data = data ]
           IN  IF Cardinality(DOMAIN data) = Len(The(w.columns))
               THEN finalize(w1, sid)
               ELSE Ret(w1, "ok")

\* WFDD.__getitem__ for a key that is not in the index: the pending setter of
\* the key, created when there is none
WFDD_getitem_setter(w, key) ==
  IF DictHas(w.unfinished_setters, key) THEN w
  ELSE [ w EXCEPT
           !.setters = Append(@, [ key |-> key, data |-> EmptyDict, finalized |-> FALSE ]),
           !.unfinished_setters = DictSet(@, key, Len(w.setters) + 1) ]

\* write_to_disk without the comparison of the sizes
write_to_disk_any_size(w, row_index, position, value) ==
  IF position + 1 > Len(The(w.column_to_serialize)) THEN Ret(w, "IndexError")
  ELSE IF value = NoneVal /\ The(w.column_to_serialize)[position + 1] = "str"
  THEN Ret(w, "AttributeError")
  ELSE Ret([ w EXCEPT !.disk = WriteAt(@, row_index[position + 1],
                                       type_to_serializer(The(w.column_to_serialize)[position + 1], value)) ],
           "ok")

\* FDDReadRow.write_to_disk: w is the parent of the row view, a writer or a
\* reader, of which the file and the serializers are used
write_to_disk(w, row_index, position, value) ==
  IF position + 1 > Len(The(w.column_to_serialize)) THEN Ret(w, "IndexError")
  ELSE IF value = NoneVal /\ The(w.column_to_serialize)[position + 1] = "str"
  THEN Ret(w, "AttributeError")
  ELSE LET existing_start == row_index[position + 1]
           existing_end == row_index[position + 2]
           value_bytes == type_to_serializer(The(w.column_to_serialize)[position + 1], value)
       IN  IF Len(value_bytes) = existing_end - existing_start
           THEN Ret([ w EXCEPT !.disk = WriteAt(@, existing_start, value_bytes) ], "ok")
           ELSE Ret(w, "ValueError")

\* FDDReadRow.__setattr__ without the test of allow_cell_modification
row_setattr_unguarded(w, key, name, value) ==
  IF name \notin SeqToSet(The(w.columns)) THEN Ret(w, "AttributeError")
  ELSE LET row_index == IdxGet(w.index, key)
           position == PosOf(The(w.columns), name) - 1
       IN  IF position + 1 >= Len(row_index) THEN Ret(w, "IndexError")
           ELSE write_to_disk(w, row_index, position, value)

\* FDDReadRow.__setattr__ on the row view WFDD.__getitem__ returns for a key
\* of the index
FDDReadRow_setattr(w, key, name, value) ==
  IF ~w.allow_cell_modification THEN Ret(w, "AttributeError")
  ELSE IF name \notin SeqToSet(The(w.columns)) THEN Ret(w, "AttributeError")
  ELSE LET row_index == IdxGet(w.index, key)
           position == PosOf(The(w.columns), name) - 1
       IN  IF position + 1 >= Len(row_index) THEN Ret(w, "IndexError")
           ELSE write_to_disk(w, row_index, position, value)

\* the statement writer[key].name = value
WriterAssign(w, key, name, value) ==
  IF ~IdxContains(w.index, key)
  THEN IF w.columns = None THEN Ret(w, "KeyError")
       ELSE LET w1 == WFDD_getitem_setter(w, key)
            IN  FDDSetter_setattr(w1, DictGet(w1.unfinished_setters, key), name, value)
  ELSE IF w.columns = None THEN Ret(w, "AttributeError")
  ELSE FDDReadRow_setattr(w, key, name, value)

----------------------------------------------------------------------------
(* Splits and properties of the writer *)

RECURSIVE RowsToDict(_, _, _)
RowsToDict(ix, rows, d) ==
  IF rows = << >> THEN d
  ELSE RowsToDict(ix, Tail(rows), DictSet(d, Head(rows), IdxGet(ix, Head(rows))))

RECURSIVE KeylessFill(_, _, _)
KeylessFill(ix, rows, split_index) ==
  IF rows = << >> THEN split_index
  ELSE KeylessFill(ix, Tail(rows),
                   KeylessSetItem(split_index, IdxLen(split_index),
                                  IdxGet(ix, Head(rows))).ix)

\* for k, v in split_index_dict.items(): split_index[k] = v
RECURSIVE GeneralFill(_, _)
GeneralFill(d, r) ==
  IF d = << >> \/ ~r.ok THEN r
  ELSE GeneralFill(Tail(d), GeneralSetItem(r.ix, Head(d).k, Head(d).v))

\* dict.update of the history of the key lists the splits were built from
HSet(h, split, keyless, rows) ==
  DictSet(h, split, [ keyless |-> keyless, rows |-> rows ])

\* WFDD.make_split for a list of keys
make_split(w, split, rows, overwrite, keyless, preserve_order) ==
  IF DictHas(w.split_to_index, split) /\ ~overwrite THEN Ret(w, "ValueError")
  ELSE IF \E i \in 1..Len(rows) : ~IdxContains(w.index, rows[i])
  THEN Ret(w, IF w.index.kind = "keyless" THEN "IndexError" ELSE "KeyError")
  ELSE
    LET nv == num_vals_of(w.columns)
        d == RowsToDict(w.index, rows, << >>)
        c == FDDIndexComparableKey(d)
        r == IF keyless
             THEN [ ok |-> TRUE, err |-> "ok",
                    ix |-> KeylessFill(w.index, rows, FDDIndexKeyless(nv)) ]
             ELSE IF ~preserve_order /\ c.ok THEN c
             ELSE GeneralFill(d, [ ok |-> TRUE, err |-> "ok", ix |-> FDDIndexGeneral(nv) ])
    IN  IF ~r.ok THEN Ret(w, r.err)
        ELSE IF split = "all_rows"
        THEN Ret([ w EXCEPT !.index = r.ix,
                            !.hsplits = HSet(@, split, keyless, rows) ], "ok")
        ELSE Ret([ w EXCEPT !.split_to_index = DictSet(@, split, r.ix),
                            !.hsplits = HSet(@, split, keyless, rows) ], "ok")

\* FDDIndexGeneral.update
update(ix, d) == GeneralFill(d, [ ok |-> TRUE, err |-> "ok", ix |-> ix ])

\* WFDD.add_to_split for a list of keys; only FDDIndexGeneral defines update
add_to_split(w, split, rows) ==
  IF ~DictHas(w.split_to_index, split) THEN Ret(w, "ValueError")
  ELSE IF DictGet(w.split_to_index, split).kind # "general" THEN Ret(w, "AttributeError")
  ELSE IF \E i \in 1..Len(rows) : ~IdxContains(w.index, rows[i])
  THEN Ret(w, IF w.index.kind = "keyless" THEN "IndexError" ELSE "KeyError")
  ELSE LET ix == DictGet(w.split_to_index, split)
           r == update(ix, RowsToDict(w.index, rows, << >>))
           h == DictGet(w.hsplits, split)
       IN  IF ~r.ok THEN Ret(w, r.err)
           ELSE Ret([ w EXCEPT
                        !.split_to_index = DictSet(@, split, r.ix),
                        !.hsplits = HSet(@, split, h.keyless,
                                         h.rows \o SelectSeq(rows,
                                            LAMBDA k : k \notin SeqToSet(h.rows))) ],
                    "ok")

\* of the names tried, those in self.__dict__ of a writer or a reader (set
\* by __init__), and those the class BaseFDD defines
InstanceNames == { "allow_cell_modification" }
InheritedNames == { "keys" }

\* WFDD.__setattr__: a name of self.__dict__ is set on the object, any other
\* name goes to the properties
WFDD_setattr(w, name, value) ==
  IF name \in InstanceNames THEN [ w EXCEPT !.allow_cell_modification = value ]
  ELSE [ w EXCEPT !.custom_properties = DictSet(@, name, value) ]

\* the expression writer.name: the attribute the object or its classes have,
\* and WFDD.__getattr__ only when they have none
WFDD_attr(w, name) ==
  IF name \in InstanceNames THEN << "bool", w.allow_cell_modification >>
  ELSE IF name \in InheritedNames THEN << "method", 0 >>
  ELSE IF DictHas(w.custom_properties, name) THEN << "int", DictGet(w.custom_properties, name) >>
  ELSE ErrVal("AttributeError")

\* BaseFDD.__delattr__
BaseFDD_delattr(w, name) ==
  IF DictHas(w.custom_properties, name)
  THEN Ret([ w EXCEPT !.custom_properties = DictDel(@, name) ], "ok")
  ELSE Ret(w, "AttributeError")

----------------------------------------------------------------------------
(* WFDD.close *)

\* for k in cpy: self.unfinished_setters[k].finalize()
\* an exception of one finalize leaves the loop, and close
RECURSIVE FlushSetters(_, _)
FlushRest(r, cpy) == IF r.err # "ok" THEN r ELSE FlushSetters(r.w, cpy)
FlushSetters(w, cpy) ==
  IF cpy = << >> THEN Ret(w, "ok")
  ELSE FlushRest(finalize(w, DictGet(w.unfinished_setters, Head(cpy))), Tail(cpy))

\* start = tell(); write(data); end = tell(); index_index[tag + name] = (start, end)
Emit(acc, tag, name, data) ==
  [ disk |-> WriteAt(acc.disk, acc.pos, data),
    pos |-> acc.pos + Len(data),
    ii |-> Append(acc.ii, [ tag |-> tag, name |-> name,
                            start |-> acc.pos, end |-> acc.pos + Len(data) ]) ]

RECURSIVE EmitProps(_, _)
EmitProps(acc, props) ==
  IF props = << >> THEN acc
  ELSE EmitProps(Emit(acc, "_prop_", Head(props).k, DumpProp(Head(props).v)), Tail(props))

RECURSIVE EmitSplits(_, _)
EmitSplits(acc, splits) ==
  IF splits = << >> THEN acc
  ELSE LET v == Head(splits).v
           data == IF v.kind = "keyless" THEN KeylessMarker \o write_index_bytes(v)
                   ELSE DumpIndex(v)
       IN  EmitSplits(Emit(acc, "_split_", Head(splits).k, data), Tail(splits))

\* WFDD.close without the final truncate: the bytes of an earlier, longer
\* trailer stay after the new one
close_without_truncate(w) ==
  LET a0 == [ disk |-> w.disk, pos |-> w.pos, ii |-> << >> ]
      a1 == IF w.column_def # None
            THEN Emit(a0, "_column_def_", "", DumpColumnDef(The(w.column_def)))
            ELSE a0
      a2 == EmitProps(a1, w.custom_properties)
      splits == DictSet(w.split_to_index, "all_rows", w.index)
      a3 == EmitSplits(a2, splits)
      a4 == IF w.columns # None
            THEN Emit(a3, "_columns_", "", DumpColumns(The(w.columns)))
            ELSE a3
      index_index_data == DumpIndexIndex(a4.ii)
      d5 == WriteAt(a4.disk, a4.pos,
                    index_index_data \o ToBytes(Len(index_index_data), TrailerLen))
  IN  [ w EXCEPT !.split_to_index = splits,
                 !.disk = d5,
                 !.pos = a4.pos + Len(index_index_data) + TrailerLen ]

\* the part of close after the setters: column_def, properties, splits,
\* columns, the section table and its length, then truncate
WriteMetadata(w) ==
  LET a0 == [ disk |-> w.disk, pos |-> w.pos, ii |-> << >> ]
      a1 == IF w.column_def # None
            THEN Emit(a0, "_column_def_", "", DumpColumnDef(The(w.column_def)))
            ELSE a0
      a2 == EmitProps(a1, w.custom_properties)
      splits == DictSet(w.split_to_index, "all_rows", w.index)
      a3 == EmitSplits(a2, splits)
      a4 == IF w.columns # None
            THEN Emit(a3, "_columns_", "", DumpColumns(The(w.columns)))
            ELSE a3
      index_index_data == DumpIndexIndex(a4.ii)
      d5 == WriteAt(a4.disk, a4.pos,
                    index_index_data \o ToBytes(Len(index_index_data), TrailerLen))
      p5 == a4.pos + Len(index_index_data) + TrailerLen
  IN  [ w EXCEPT !.split_to_index = splits,
                 !.disk = SubSeq(d5, 1, p5),
                 !.pos = p5 ]

\* the metadata is written once every setter is finalized
close_rest(r) == IF r.err # "ok" THEN r ELSE Ret(WriteMetadata(r.w), "ok")

close(w) ==
  close_rest(FlushSetters(w, [ i \in 1..Len(w.unfinished_setters) |->
                                 w.unfinished_setters[i].k ]))

----------------------------------------------------------------------------
(* Reading the trailer: shared by WFDD.reopen and RFDDImpl.load_indices *)

\* seek(-8, 2); read(8); seek(-(8 + size), 2); read(size); deserialize
ReadIndexIndex(f) ==
  LET index_index_size == FromBytes(SubSeq(f, Len(f) - TrailerLen + 1, Len(f)))
      start == Len(f) - TrailerLen - index_index_size
      t == LoadIndexIndex(SubSeq(f, start + 1, Len(f) - TrailerLen))
  IN  [ ok |-> Len(f) >= TrailerLen /\ start >= 0 /\ t.ok, start |-> start, ii |-> t.v ]

Tagged(ii, tag) == SelectSeq(ii, LAMBDA e : e.tag = tag)
HasTag(ii, tag) == Tagged(ii, tag) # << >>

\* the columns the file declares, None when it has no _columns_ section
FileColumns(f, ii) ==
  IF HasTag(ii, "_columns_")
  THEN Some(LoadColumns(read_chunk(f, Tagged(ii, "_columns_")[1].start,
                                   Tagged(ii, "_columns_")[1].end)).v)
  ELSE None

FileColumnDef(f, ii) ==
  IF HasTag(ii, "_column_def_")
  THEN Some(LoadColumnDef(read_chunk(f, Tagged(ii, "_column_def_")[1].start,
                                     Tagged(ii, "_column_def_")[1].end)).v)
  ELSE None

\* the split object stored at [start, end): keyless after the marker byte,
\* otherwise whatever the system deserializer returns
LoadSplitObject(f, ii, e) ==
  IF read_chunk(f, e.start, e.start + 1) = KeylessMarker
  THEN get_keyless_index(read_chunk(f, e.start + 1, e.end),
                         num_vals_of(FileColumns(f, ii)))
  ELSE LoadIndex(read_chunk(f, e.start, e.end)).ix

RECURSIVE MinStart(_, _)
MinStart(es, m) == IF es = << >> THEN m ELSE MinStart(Tail(es), Min(m, Head(es).start))

Codecs(cd) == [ i \in 1..Len(cd) |-> cd[i].codec ]
ColNames(cd) == [ i \in 1..Len(cd) |-> cd[i].name ]

----------------------------------------------------------------------------
(* WFDD.__init__ and WFDD.reopen.  cols is the columns argument: None or a  *)
(* column definition <<[name, codec]>>.                                     *)

\* WFDD.__init__ with reopen=False: open(filename, 'wb+')
WFDD_init(cols, acm) ==
  [ disk |-> << >>, pos |-> 0,
    index |-> FDDIndexGeneral(IF cols # None THEN Len(The(cols)) + 1 ELSE 2),
    setters |-> << >>, unfinished_setters |-> << >>,
    split_to_index |-> << >>, custom_properties |-> << >>,
    columns |-> IF cols # None THEN Some(ColNames(The(cols))) ELSE None,
    column_def |-> cols,
    column_to_serialize |-> IF cols # None THEN Some(Codecs(The(cols))) ELSE None,
    allow_cell_modification |-> acm,
    nrows |-> 0, written |-> << >>, hsplits |-> << >> ]

\* the splits other than all_rows, loaded in the order of the section table
LoadSplits(f, ii) ==
  LET es == SelectSeq(Tagged(ii, "_split_"), LAMBDA e : e.name # "all_rows")
  IN  [ i \in 1..Len(es) |-> [ k |-> es[i].name, v |-> LoadSplitObject(f, ii, es[i]) ] ]

LoadProps(f, ii) ==
  LET es == Tagged(ii, "_prop_")
  IN  [ i \in 1..Len(es) |->
          [ k |-> es[i].name, v |-> LoadProp(read_chunk(f, es[i].start, es[i].end)) ] ]

\* a reopen that seeks to the start of the file
reopen_at_start(t) == 0

\* WFDD.reopen: the offset the writer seeks to, the smallest start among the
\* section table, the splits, the columns and the properties
ReopenEarliest(t) ==
  MinStart(Tagged(t.ii, "_split_") \o Tagged(t.ii, "_columns_")
             \o Tagged(t.ii, "_prop_"), t.start)

\* WFDD.__init__ with reopen=True on the file f; written and hsplits are
\* the histories, which a reopen keeps
WFDD_reopen(f, cols, acm, nrows0, written0, hsplits0) ==
  LET t == ReadIndexIndex(f)
      all_rows == CHOOSE e \in SeqToSet(Tagged(t.ii, "_split_")) : e.name = "all_rows"
      fcols == FileColumns(f, t.ii)
      fdef == FileColumnDef(f, t.ii)
  IN  [ disk |-> f, pos |-> ReopenEarliest(t),
        index |-> LoadSplitObject(f, t.ii, all_rows),
        setters |-> << >>, unfinished_setters |-> << >>,
        split_to_index |-> LoadSplits(f, t.ii),
        custom_properties |-> LoadProps(f, t.ii),
        \* lines 868-876: the columns argument, when given, replaces the
        \* columns and the column definition read from the file
        columns |-> IF cols # None THEN Some(ColNames(The(cols))) ELSE fcols,
        column_def |-> IF cols # None THEN cols ELSE fdef,
        \* lines 1128-1132: the codecs come from the file's column definition
        \* when it has one, else from the argument (lines 836-847)
        column_to_serialize |->
          IF fdef # None THEN Some(Codecs(The(fdef)))
          ELSE IF cols # None THEN Some(Codecs(The(cols))) ELSE None,
        allow_cell_modification |-> acm,
        nrows |-> nrows0, written |-> written0, hsplits |-> hsplits0 ]

----------------------------------------------------------------------------
(* The reader, RFDDImpl, as a function of the bytes of a closed file *)

\* RFDDImpl._get_split_object
get_split_object(f, ii, split) ==
  LET es == SelectSeq(Tagged(ii, "_split_"), LAMBDA e : e.name = split)
  IN  IF es = << >> THEN [ ok |-> FALSE, ix |-> FDDIndexGeneral(0) ]
      ELSE [ ok |-> TRUE, ix |-> LoadSplitObject(f, ii, es[1]) ]

\* RFDDImpl.__init__ / load_indices with load_new_split(split) for a plain
\* split name
load_indices(f, split) ==
  LET t == ReadIndexIndex(f)
      fdef == FileColumnDef(f, t.ii)
      sp == get_split_object(f, t.ii, split)
  IN  [ ok |-> t.ok /\ sp.ok,
        split_to_index |-> Tagged(t.ii, "_split_"),
        columns |-> FileColumns(f, t.ii),
        column_def |-> fdef,
        column_to_deserialize |-> IF fdef # None THEN Some(Codecs(The(fdef))) ELSE None,
        custom_properties |-> Tagged(t.ii, "_prop_"),
        index |-> sp.ix ]

\* items() of an index: <<[k, v]>> in iteration order
IdxItems(ix) ==
  [ i \in 1..IdxLen(ix) |-> [ k |-> IdxKeys(ix)[i], v |-> IdxGet(ix, IdxKeys(ix)[i]) ] ]

\* for s in split_objects: for k, v in s.items(): dct[k] = v
RECURSIVE MergeDict(_, _)
MergeDict(d, items) ==
  IF items = << >> THEN d
  ELSE MergeDict(DictSet(d, Head(items).k, Head(items).v), Tail(items))

RECURSIVE MergeAll(_, _)
MergeAll(d, objs) ==
  IF objs = << >> THEN d ELSE MergeAll(MergeDict(d, IdxItems(Head(objs))), Tail(objs))

\* self.index = split_objects[0]; for s in split_objects[1:]: for k, v in
\* s.items(): self.index[k] = v
RECURSIVE GeneralUnion(_, _)
GeneralUnion(r, objs) ==
  IF objs = << >> \/ ~r.ok THEN r
  ELSE GeneralUnion(GeneralFill(IdxItems(Head(objs)), r), Tail(objs))

\* rows[tuple(v)] = True over the values of every operand: the distinct
\* offset tuples in the order they are first met
RECURSIVE DistinctRows(_, _)
DistinctRows(acc, vals) ==
  IF vals = << >> THEN acc
  ELSE DistinctRows(IF Head(vals).v \in SeqToSet(acc) THEN acc ELSE Append(acc, Head(vals).v),
                    Tail(vals))

RECURSIVE AllRowsOf(_)
AllRowsOf(objs) ==
  IF objs = << >> THEN << >> ELSE IdxItems(Head(objs)) \o AllRowsOf(Tail(objs))

\* for i, r in enumerate(rows.keys()): self.index[i] = r
RECURSIVE KeylessUnion(_, _)
KeylessUnion(ix, rows) ==
  IF rows = << >> THEN ix
  ELSE KeylessUnion(KeylessSetItem(ix, IdxLen(ix), Head(rows)).ix, Tail(rows))

\* load_new_split that forgets the operands after the first
load_first_operand(f, ii, splits) ==
  IF \E i \in 1..Len(splits) : ~get_split_object(f, ii, splits[i]).ok
  THEN [ ok |-> FALSE, err |-> "KeyError", ix |-> FDDIndexGeneral(0) ]
  ELSE [ ok |-> TRUE, err |-> "ok", ix |-> get_split_object(f, ii, splits[1]).ix ]

\* RFDDImpl.load_new_split for the expression A+B+...: splits is the list of
\* the operand names
load_new_split(f, ii, splits) ==
  IF \E i \in 1..Len(splits) : ~get_split_object(f, ii, splits[i]).ok
  THEN [ ok |-> FALSE, err |-> "KeyError", ix |-> FDDIndexGeneral(0) ]
  ELSE LET objs == [ i \in 1..Len(splits) |-> get_split_object(f, ii, splits[i]).ix ]
       IN  IF Len(splits) = 1 THEN [ ok |-> TRUE, err |-> "ok", ix |-> objs[1] ]
           ELSE IF \E i \in 1..Len(objs) : objs[i].kind # objs[1].kind
           THEN [ ok |-> FALSE, err |-> "ValueError", ix |-> FDDIndexGeneral(0) ]
           ELSE CASE objs[1].kind = "comparable" ->
                       FDDIndexComparableKey(MergeAll(<< >>, objs))
                  [] objs[1].kind = "general" ->
                       GeneralUnion([ ok |-> TRUE, err |-> "ok", ix |-> objs[1] ], Tail(objs))
                  [] OTHER ->
                       [ ok |-> TRUE, err |-> "ok",
                         ix |-> KeylessUnion([ FDDIndexKeyless(objs[1].num_vals)
                                                 EXCEPT !.byte_width = objs[1].byte_width ],
                                             DistinctRows(<< >>, AllRowsOf(objs))) ]

\* RFDD(filename, split='A+B+...'): load_indices with the split expression
load_indices_plus(f, splits) ==
  LET t == ReadIndexIndex(f)
      fdef == FileColumnDef(f, t.ii)
      sp == load_new_split(f, t.ii, splits)
  IN  [ ok |-> t.ok /\ sp.ok,
        split_to_index |-> Tagged(t.ii, "_split_"),
        columns |-> FileColumns(f, t.ii),
        column_def |-> fdef,
        column_to_deserialize |-> IF fdef # None THEN Some(Codecs(The(fdef))) ELSE None,
        custom_properties |-> Tagged(t.ii, "_prop_"),
        index |-> sp.ix ]

\* FDDReadRow.__getitem__ without the test start == end: an empty range is
\* handed to the deserializer like any other
getitem_decoding_empty(f, rd, row_index, key) ==
  IF key >= Len(row_index) - 1 THEN ErrVal("IndexError")
  ELSE IF key >= Len(The(rd.column_to_deserialize)) THEN ErrVal("IndexError")
  ELSE type_to_deserializer(The(rd.column_to_deserialize)[key + 1],
                            read_chunk(f, row_index[key + 1], row_index[key + 2]))

\* FDDReadRow.__getitem__ by position (0-based) on a fresh row view
FDDReadRow_getitem(f, rd, row_index, key) ==
  IF key >= Len(row_index) - 1 THEN ErrVal("IndexError")
  ELSE LET start == row_index[key + 1]
           end == row_index[key + 2]
       IN  IF start = end THEN NoneVal
           ELSE IF key >= Len(The(rd.column_to_deserialize)) THEN ErrVal("IndexError")
           ELSE type_to_deserializer(The(rd.column_to_deserialize)[key + 1],
                                     read_chunk(f, start, end))

\* RFDDImpl.__getitem__ for a key that is no (row, column) pair: the decoded
\* value of a schemaless file, else the cells of the row view by position
RFDD_getitem(f, rd, key) ==
  IF ~IdxContains(rd.index, key) THEN << ErrVal("KeyError") >>
  ELSE LET row_index == IdxGet(rd.index, key) IN
    IF rd.columns = None
    THEN IF Len(row_index) # 2 THEN << ErrVal("ValueError") >>
         ELSE << Unpickle(read_chunk(f, row_index[1], row_index[2])) >>
    ELSE [ i \in 1..Len(The(rd.columns)) |-> FDDReadRow_getitem(f, rd, row_index, i - 1) ]

\* FDDReadRow.__getitem__ by column name
FDDReadRow_getitem_name(f, rd, row_index, name) ==
  IF name \notin SeqToSet(The(rd.columns)) THEN ErrVal("KeyError")
  ELSE FDDReadRow_getitem(f, rd, row_index, PosOf(The(rd.columns), name) - 1)

\* FDDReadRow.__getattr__
FDDReadRow_getattr(f, rd, row_index, name) ==
  IF name \notin SeqToSet(The(rd.columns)) THEN ErrVal("AttributeError")
  ELSE FDDReadRow_getitem(f, rd, row_index, PosOf(The(rd.columns), name) - 1)

\* RFDDImpl.__getitem__ for a key (k, c) that is itself no key of the
\* index.  A keyless index compares the pair with its length; with k in the
\* index the cell is read and decoded at once; otherwise the pair is looked
\* up as a key, which a sorted index does by comparing it with its keys.
RFDD_getitem_pair(f, rd, k, c) ==
  IF rd.index.kind = "keyless" THEN ErrVal("TypeError")
  ELSE IF ~IdxContains(rd.index, k)
       THEN IF rd.index.kind = "comparable" /\ IdxLen(rd.index) > 0
            THEN ErrVal("TypeError") ELSE ErrVal("KeyError")
  ELSE IF rd.columns = None THEN ErrVal("TypeError")
  ELSE IF c \notin SeqToSet(The(rd.columns)) THEN ErrVal("KeyError")
  ELSE LET col_index == PosOf(The(rd.columns), c) - 1
           indices == IdxGet(rd.index, k)
       IN  IF col_index + 1 >= Len(indices) THEN ErrVal("IndexError")
           ELSE IF rd.column_to_deserialize = None THEN ErrVal("TypeError")
           ELSE IF col_index >= Len(The(rd.column_to_deserialize)) THEN ErrVal("IndexError")
           ELSE type_to_deserializer(The(rd.column_to_deserialize)[col_index + 1],
                                     read_chunk(f, indices[col_index + 1], indices[col_index + 2]))

\* the predicates handed to filter, applied to the row reader[k]:
\* lambda r: True, lambda r: r.a == 'A', lambda r: r.a != 'A', lambda r: False
RowPreds == { "True", "a_is_A", "a_not_A", "False" }

filter_function(p, v) ==
  CASE p = "True" -> TRUE
    [] p = "a_is_A" -> v[1] = Str(<< 65 >>)
    [] p = "a_not_A" -> v[1] # Str(<< 65 >>)
    [] OTHER -> FALSE

\* the key functions handed to load_keys: None (keep the key),
\* lambda r: len(r.a) + len(r.b), lambda r: 67 - ord(r.a[0])
RowKeyFns == { "None", "len", "ord" }

row_to_key(fn, v) ==
  IF fn = "len" THEN Len(v[1][2]) + Len(v[2][2])
  ELSE IF v[1][2] = << >> THEN 0 ELSE 67 - v[1][2][1]

\* the loop of RFDDImpl.load_keys over the keys ks still to visit
RECURSIVE LoadKeysLoop(_, _, _, _, _, _)
LoadKeysLoop(f, rd, ks, fn, p, new_index) ==
  IF ks = << >> THEN new_index
  ELSE IF ~filter_function(p, RFDD_getitem(f, rd, Head(ks)))
       THEN LoadKeysLoop(f, rd, Tail(ks), fn, p, new_index)
       ELSE LET new_key == IF fn # "None" THEN row_to_key(fn, RFDD_getitem(f, rd, Head(ks)))
                           ELSE Head(ks)
            IN  IF IdxContains(new_index, new_key)
                THEN LoadKeysLoop(f, rd, Tail(ks), fn, p, new_index)
                ELSE LoadKeysLoop(f, rd, Tail(ks), fn, p,
                                  GeneralSetItem(new_index, new_key, IdxGet(rd.index, Head(ks))).ix)

\* load_keys that visits the rows from the last to the first, so that of two
\* rows computing one key the later one is kept
load_keys_last_wins(f, rd, fn, p) ==
  [ rd EXCEPT !.index =
      LoadKeysLoop(f, rd, Reverse(IdxKeys(rd.index)), fn, p,
                   [ FDDIndexGeneral(rd.index.num_vals) EXCEPT !.byte_width = rd.index.byte_width ]) ]

\* RFDDImpl.load_keys(row_to_key, filter_function)
load_keys(f, rd, fn, p) ==
  [ rd EXCEPT !.index =
      LoadKeysLoop(f, rd, IdxKeys(rd.index), fn, p,
                   [ FDDIndexGeneral(rd.index.num_vals) EXCEPT !.byte_width = rd.index.byte_width ]) ]

\* RFDDImpl.filter(filter_function)
filter(f, rd, p) == load_keys(f, rd, "None", p)

\* RFDD(filename, split='A+B$expr'): load_indices, whose load_new_split
\* filters the loaded index with the compiled expression
load_indices_filtered(f, splits, p) ==
  IF load_indices_plus(f, splits).ok THEN filter(f, load_indices_plus(f, splits), p)
  ELSE load_indices_plus(f, splits)

----------------------------------------------------------------------------
(* The reader as an object: RFDDImpl with its row cache, its property cache *)
(* and its file handle; FDDReadRow with its cell cache.  A handler returns  *)
(* [r, disk, out]: the reader and the file it leaves and what it returned   *)
(* or raised.  In a cell cache NoneVal is Python's None: nothing loaded.    *)

NoReader == [ state |-> "none" ]

\* no writer was opened on the second path
NoDest == [ state |-> "none" ]

\* the process has not forked
NoFork == [ state |-> "none" ]

Out(r, f, out) == [ r |-> r, disk |-> f, out |-> out ]

Raised(v) == v[1] = "raise"

\* the offset load_new_split leaves the handle at: the end of the last
\* operand read, or the byte after the marker of a keyless one
PosAfterLoad(f, ii, split) ==
  LET e == SelectSeq(Tagged(ii, "_split_"), LAMBDA x : x.name = split)[1]
  IN  IF read_chunk(f, e.start, e.start + 1) = KeylessMarker THEN e.start + 1 ELSE e.end

\* RFDDImpl.__init__ for a file that loads; file0 is history: the bytes of
\* the file when a reader that may not modify cells was opened
RFDD_init(f, splits, acm) ==
  load_indices_plus(f, splits) @@
    [ state |-> "open", allow_cell_modification |-> acm,
      file0 |-> IF acm THEN << >> ELSE f,
      read_row_cache |-> None, cashed_read_row_key |-> None,
      custom_properties_cache |-> << >>, attrs |-> << >>,
      fpos |-> PosAfterLoad(f, ReadIndexIndex(f).ii, splits[Len(splits)]),
      last_view |-> 0 ]

\* FDDReadRow.__init__; id tells a new object from the one that was cached
\* before it
FDDReadRow(row_index, id) ==
  [ id |-> id, index |-> row_index, cache |-> [ i \in 1..(Len(row_index) - 1) |-> NoneVal ] ]

\* RFDDImpl.__getitem__ for a key that is no pair: out is the decoded value
\* of a schemaless file, else "view": the row view, which is the one now in
\* read_row_cache
RFDDImpl_getitem(f, r, key) ==
  IF ~IdxContains(r.index, key) THEN Out(r, f, ErrVal("KeyError"))
  ELSE IF r.columns = None
  THEN IF Len(IdxGet(r.index, key)) # 2 THEN Out(r, f, ErrVal("ValueError"))
       ELSE Out([ r EXCEPT !.fpos = Min(IdxGet(r.index, key)[2], Len(f)) ], f,
                Unpickle(read_chunk(f, IdxGet(r.index, key)[1], IdxGet(r.index, key)[2])))
  ELSE IF r.read_row_cache # None /\ Some(key) = r.cashed_read_row_key
  THEN Out(r, f, << "view" >>)
  ELSE Out([ r EXCEPT !.read_row_cache = Some(FDDReadRow(IdxGet(r.index, key), 1 - r.last_view)),
                      !.cashed_read_row_key = Some(key),
                      !.last_view = 1 - @ ],
           f, << "view" >>)

\* FDDReadRow.__getitem__ by position on the view v of reader r: the cell is
\* loaded and kept when the cache holds None for it
View_getitem(f, r, v, position) ==
  IF position >= Len(v.cache) THEN Out(r, f, ErrVal("IndexError"))
  ELSE IF v.cache[position + 1] # NoneVal THEN Out(r, f, v.cache[position + 1])
  ELSE IF v.index[position + 1] = v.index[position + 2] THEN Out(r, f, NoneVal)
  ELSE IF r.column_to_deserialize = None THEN Out(r, f, ErrVal("TypeError"))
  ELSE IF position >= Len(The(r.column_to_deserialize)) THEN Out(r, f, ErrVal("IndexError"))
  ELSE IF Raised(type_to_deserializer(The(r.column_to_deserialize)[position + 1],
                                      read_chunk(f, v.index[position + 1], v.index[position + 2])))
  THEN Out([ r EXCEPT !.fpos = Min(v.index[position + 2], Len(f)) ], f,
           type_to_deserializer(The(r.column_to_deserialize)[position + 1],
                                read_chunk(f, v.index[position + 1], v.index[position + 2])))
  ELSE Out([ r EXCEPT !.fpos = Min(v.index[position + 2], Len(f)),
                      !.read_row_cache[1].cache[position + 1] =
                         type_to_deserializer(The(r.column_to_deserialize)[position + 1],
                                              read_chunk(f, v.index[position + 1], v.index[position + 2])) ],
           f,
           type_to_deserializer(The(r.column_to_deserialize)[position + 1],
                                read_chunk(f, v.index[position + 1], v.index[position + 2])))

\* FDDReadRow.__getattr__ on the view in read_row_cache
View_getattr(f, r, name) ==
  IF name \notin SeqToSet(The(r.columns)) THEN Out(r, f, ErrVal("AttributeError"))
  ELSE View_getitem(f, r, The(r.read_row_cache), PosOf(The(r.columns), name) - 1)

\* FDDReadRow.__setitem__ by position on the view in read_row_cache: the
\* value goes to the cell cache and nowhere else
View_setitem(f, r, position, value) ==
  IF position >= Len(The(r.read_row_cache).cache) THEN Out(r, f, ErrVal("IndexError"))
  ELSE Out([ r EXCEPT !.read_row_cache[1].cache[position + 1] = value ], f, NoneVal)

\* the end of FDDReadRow.__setattr__ on a view of a reader, after the cell
\* cache took the value: write_to_disk when the reader allows it
View_write(r, res) ==
  Out(r, res.w.disk, IF res.err = "ok" THEN NoneVal ELSE ErrVal(res.err))

\* FDDReadRow.__setattr__ that writes whatever the reader allows
View_setattr_always_writing(f, r, name, value) ==
  IF name \notin SeqToSet(The(r.columns)) THEN Out(r, f, ErrVal("AttributeError"))
  ELSE View_write([ r EXCEPT !.read_row_cache[1].cache[PosOf(The(r.columns), name)] = value ],
                  write_to_disk([ disk |-> f, column_to_serialize |-> r.column_to_deserialize ],
                                The(r.read_row_cache).index,
                                PosOf(The(r.columns), name) - 1, value))

\* FDDReadRow.__setattr__ on the view in read_row_cache of a reader
View_setattr(f, r, name, value) ==
  IF name \notin SeqToSet(The(r.columns)) THEN Out(r, f, ErrVal("AttributeError"))
  ELSE IF ~r.allow_cell_modification
  THEN Out([ r EXCEPT !.read_row_cache[1].cache[PosOf(The(r.columns), name)] = value ], f, NoneVal)
  ELSE View_write([ r EXCEPT !.read_row_cache[1].cache[PosOf(The(r.columns), name)] = value ],
                  write_to_disk([ disk |-> f, column_to_serialize |-> r.column_to_deserialize ],
                                The(r.read_row_cache).index,
                                PosOf(The(r.columns), name) - 1, value))

\* the expression reader.name: the attribute the object or its classes have,
\* and RFDDImpl.__getattr__ only when they have none
RFDD_attr(f, r, name) ==
  IF DictHas(r.attrs, name) THEN Out(r, f, << "int", DictGet(r.attrs, name) >>)
  ELSE IF name \in InstanceNames THEN Out(r, f, << "bool", r.allow_cell_modification >>)
  ELSE IF name \in InheritedNames THEN Out(r, f, << "method", 0 >>)
  ELSE IF DictHas(r.custom_properties_cache, name)
  THEN Out(r, f, << "int", DictGet(r.custom_properties_cache, name) >>)
  ELSE IF \E i \in 1..Len(r.custom_properties) : r.custom_properties[i].name = name
  THEN LET e == SelectSeq(r.custom_properties, LAMBDA x : x.name = name)[1]
       IN  Out([ r EXCEPT !.custom_properties_cache =
                             DictSet(@, name, LoadProp(read_chunk(f, e.start, e.end))),
                          !.fpos = Min(e.end, Len(f)) ],
               f, << "int", LoadProp(read_chunk(f, e.start, e.end)) >>)
  ELSE Out(r, f, ErrVal("AttributeError"))

\* reader.name = value: RFDDImpl defines no __setattr__, the value becomes an
\* attribute of the object
RFDD_setattr(f, r, name, value) ==
  Out([ r EXCEPT !.attrs = DictSet(@, name, value) ], f, NoneVal)

\* BaseFDD.__delattr__ on a reader
RFDD_delattr(f, r, name) ==
  IF \E i \in 1..Len(r.custom_properties) : r.custom_properties[i].name = name
  THEN Out([ r EXCEPT !.custom_properties = SelectSeq(@, LAMBDA x : x.name # name),
                      !.custom_properties_cache = DictDel(@, name) ], f, NoneVal)
  ELSE IF DictHas(r.attrs, name) THEN Out([ r EXCEPT !.attrs = DictDel(@, name) ], f, NoneVal)
  ELSE Out(r, f, ErrVal("AttributeError"))

\* RFDDImpl.load_new_split(split) on an open reader
RFDD_load_new_split(f, r, splits) ==
  IF ~load_new_split(f, ReadIndexIndex(f).ii, splits).ok
  THEN Out(r, f, ErrVal(load_new_split(f, ReadIndexIndex(f).ii, splits).err))
  ELSE Out([ r EXCEPT !.index = load_new_split(f, ReadIndexIndex(f).ii, splits).ix,
                      !.fpos = PosAfterLoad(f, ReadIndexIndex(f).ii, splits[Len(splits)]) ],
           f, NoneVal)

\* for k, v in self, in load_keys: every self[k] goes through the row cache,
\* and the functions that look at r.a load that cell into the view
RECURSIVE IterRows(_, _, _, _)
IterRows(f, r, ks, reads_a) ==
  IF ks = << >> THEN r
  ELSE IterRows(f,
                IF reads_a THEN View_getattr(f, RFDDImpl_getitem(f, r, Head(ks)).r, "a").r
                ELSE RFDDImpl_getitem(f, r, Head(ks)).r,
                Tail(ks), reads_a)

\* RFDDImpl.load_keys(row_to_key, filter_function) on an open reader
RFDD_load_keys(f, r, fn, p) ==
  Out([ IterRows(f, r, IdxKeys(r.index), p \in { "a_is_A", "a_not_A" } \/ (p = "True" /\ fn # "None"))
          EXCEPT !.index = load_keys(f, r, fn, p).index ],
      f, NoneVal)

\* a statement reader[key]... : step is run on the reader that reader[key]
\* left when that returned a view, and not at all when it raised
OnView(got, step) == IF got.out = << "view" >> THEN step ELSE got

----------------------------------------------------------------------------
(* The state machine: one writer at a time on one path *)

W ==
  [ disk |-> disk, pos |-> pos, index |-> index, setters |-> setters,
    unfinished_setters |-> unfinished_setters, split_to_index |-> split_to_index,
    custom_properties |-> custom_properties, columns |-> columns,
    column_def |-> column_def, column_to_serialize |-> column_to_serialize,
    allow_cell_modification |-> allow_cell_modification,
    nrows |-> nrows, written |-> written, hsplits |-> hsplits ]

Become(w) ==
  /\ disk' = w.disk
  /\ pos' = w.pos
  /\ index' = w.index
  /\ setters' = w.setters
  /\ unfinished_setters' = w.unfinished_setters
  /\ split_to_index' = w.split_to_index
  /\ custom_properties' = w.custom_properties
  /\ columns' = w.columns
  /\ column_def' = w.column_def
  /\ column_to_serialize' = w.column_to_serialize
  /\ allow_cell_modification' = w.allow_cell_modification
  /\ nrows' = w.nrows
  /\ written' = w.written
  /\ hsplits' = w.hsplits
  /\ UNCHANGED << reader, dest, fork >>  \* no writer operation touches another object

Is(w) ==
  /\ disk = w.disk
  /\ pos = w.pos
  /\ index = w.index
  /\ setters = w.setters
  /\ unfinished_setters = w.unfinished_setters
  /\ split_to_index = w.split_to_index
  /\ custom_properties = w.custom_properties
  /\ columns = w.columns
  /\ column_def = w.column_def
  /\ column_to_serialize = w.column_to_serialize
  /\ allow_cell_modification = w.allow_cell_modification
  /\ nrows = w.nrows
  /\ written = w.written
  /\ hsplits = w.hsplits

\* a handler of the open writer ran and left r = [w, err]
Ran(r) ==
  /\ Become(r.w)
  /\ err' = r.err
  /\ fresh' = FALSE
  /\ UNCHANGED << exists, wstate, session >>

ColAB == << [ name |-> "a", codec |-> "str" ], [ name |-> "b", codec |-> "any" ] >>
ColA == << [ name |-> "a", codec |-> "any" ] >>
Schemas == { None, Some(ColAB) }
ReopenSchemas == { None, Some(ColAB), Some(ColA) }

Init ==
  /\ exists = FALSE
  /\ wstate = "none"
  /\ Is(WFDD_init(None, FALSE))
  /\ err = "ok"
  /\ session = 0
  /\ fresh = FALSE
  /\ reader = NoReader
  /\ dest = NoDest
  /\ fork = NoFork

----------------------------------------------------------------------------
(* Inputs *)

MaxSessions == 2      \* writers opened on one file: the first and the reopens

CellA(k) == Str(<< 64 + k >>)
CellB(k) == Str(<< 48 + k, 48 + k >>)
EmptyStr == Str(<< >>)

\* the items tried for key k: values for a schemaless writer; dicts (full,
\* partial, with an empty string and a None, empty, with an unknown column),
\* tuples (full, short) and a plain value for a writer with columns
Items(k) ==
  IF columns = None
  THEN { ValueItem(CellA(k)), ValueItem(NoneVal), ValueItem(EmptyStr) }
  ELSE { DictItem([ c \in { "a", "b" } |-> IF c = "a" THEN CellA(k) ELSE CellB(k) ]),
         DictItem([ c \in { "a" } |-> CellA(k) ]),
         DictItem([ c \in { "a", "b" } |-> IF c = "a" THEN EmptyStr ELSE NoneVal ]),
         DictItem(EmptyDict),
         DictItem([ c \in { "a", "z" } |-> CellA(k) ]),
         TupleItem(<< CellA(k), CellB(k) >>),
         TupleItem(<< CellA(k) >>),
         ValueItem(CellA(k)) }

\* the items of the file specification: a full row, a partial row
FileItems(k) ==
  IF columns = None THEN { ValueItem(CellA(k)) }
  ELSE { DictItem([ c \in { "a", "b" } |-> IF c = "a" THEN CellA(k) ELSE CellB(k) ]),
         DictItem([ c \in { "b" } |-> CellB(k) ]) }

RowKeys == { 1, 2 }
AssignNames == { "a", "b", "z" }
AssignValues == { Str(<< 65 >>), EmptyStr }

SplitNames == { "s", "all_rows" }
\* the key lists given to make_split: every key, or the first key only
FirstKey == SubSeq(IdxKeys(index), 1, Min(1, IdxLen(index)))
FileRowLists == { IdxKeys(index), FirstKey }
FileProps == { << "p", 1 >>, << "q", 2 >> }
PropNames == { "p", "q" }

----------------------------------------------------------------------------
(* Actions *)

\* WFDD(filename, columns=cols, overwrite=True, allow_cell_modification=acm)
Open(cols, acm) ==
  /\ wstate # "open"
  /\ exists' = TRUE
  /\ wstate' = "open"
  /\ Become(WFDD_init(cols, acm))
  /\ err' = "ok"
  /\ session' = 1
  /\ fresh' = FALSE

\* WFDD(filename, columns=cols, reopen=True, allow_cell_modification=acm)
Reopen(cols, acm) ==
  /\ wstate # "open"
  /\ session < MaxSessions
  /\ IF ~exists
     THEN /\ err' = "FileNotFoundError"
          /\ UNCHANGED << exists, wstate, session, fresh, wvars, reader, dest, fork >>
     ELSE /\ Become(WFDD_reopen(disk, cols, acm, nrows, written, hsplits))
          /\ wstate' = "open"
          /\ err' = "ok"
          /\ session' = session + 1
          /\ fresh' = TRUE
          /\ UNCHANGED exists

\* the rows appended and the setters pending stay within the bound
Within(r) == r.w.nrows + Len(r.w.unfinished_setters) <= MaxRows

\* a handler of the open writer ran within the bound
Step(r) == Within(r) /\ Ran(r)

\* writer[k] = item
SetItem(k, item) ==
  /\ wstate = "open"
  /\ Step(WFDD_setitem(W, k, item))

\* WFDD.read_chunk: tell(), seek(start), read(end - start), seek back
WFDD_read_chunk(w, start, end) ==
  LET pos0 == w.pos
      moved == [ w EXCEPT !.pos = Min(end, Len(w.disk)) ]
  IN  [ w |-> [ moved EXCEPT !.pos = pos0 ], data |-> read_chunk(w.disk, start, end) ]

\* WFDD.__getitem__: [w, out] with out the decoded value of a schemaless
\* writer, "view" for a row view of a key of the index, "setter" for the
\* pending setter of any other key
WFDD_getitem_value(w, k) ==
  IF ~IdxContains(w.index, k)
  THEN IF w.columns = None THEN [ w |-> w, out |-> ErrVal("KeyError") ]
       ELSE [ w |-> WFDD_getitem_setter(w, k), out |-> << "setter" >> ]
  ELSE IF w.columns = None
  THEN IF Len(IdxGet(w.index, k)) # 2 THEN [ w |-> w, out |-> ErrVal("ValueError") ]
       ELSE [ w |-> WFDD_read_chunk(w, IdxGet(w.index, k)[1], IdxGet(w.index, k)[2]).w,
              out |-> Unpickle(WFDD_read_chunk(w, IdxGet(w.index, k)[1], IdxGet(w.index, k)[2]).data) ]
  ELSE [ w |-> w, out |-> << "view" >> ]

\* writer[k].name for a key of the index of a writer with columns:
\* FDDReadRow.__getattr__ on the new view, which reads through
\* WFDD.read_chunk
WFDD_row_getattr(w, k, name) ==
  IF name \notin SeqToSet(The(w.columns)) THEN [ w |-> w, out |-> ErrVal("AttributeError") ]
  ELSE LET row_index == IdxGet(w.index, k)
           key == PosOf(The(w.columns), name) - 1
       IN  IF key >= Len(row_index) - 1 THEN [ w |-> w, out |-> ErrVal("IndexError") ]
           ELSE IF row_index[key + 1] = row_index[key + 2] THEN [ w |-> w, out |-> NoneVal ]
           ELSE [ w |-> WFDD_read_chunk(w, row_index[key + 1], row_index[key + 2]).w,
                  out |-> type_to_deserializer(The(w.column_to_serialize)[key + 1],
                            WFDD_read_chunk(w, row_index[key + 1], row_index[key + 2]).data) ]

\* the statement writer[k], which makes a pending setter for a key that is
\* not in the index
WFDD_getitem(w, k) ==
  Ret(WFDD_getitem_value(w, k).w,
      IF Raised(WFDD_getitem_value(w, k).out) THEN WFDD_getitem_value(w, k).out[3] ELSE "ok")

\* the statement writer[k].name for a key of the index
WFDD_read(w, k, name) ==
  Ret(WFDD_row_getattr(w, k, name).w,
      IF Raised(WFDD_row_getattr(w, k, name).out) THEN WFDD_row_getattr(w, k, name).out[3] ELSE "ok")

\* writer[k].name
ReadCellOf(k, name) ==
  /\ wstate = "open"
  /\ columns # None
  /\ IdxContains(index, k)
  /\ Step(WFDD_read(W, k, name))

GetItem(k) ==
  /\ wstate = "open"
  /\ Step(WFDD_getitem(W, k))

\* writer[k].name = value
Assign(k, name, value) ==
  /\ wstate = "open"
  /\ Step(WriterAssign(W, k, name, value))

\* setter.name = value on a setter object obtained earlier
SetterAssign(sid, name, value) ==
  /\ wstate = "open"
  /\ Step(FDDSetter_setattr(W, sid, name, value))

\* setter.finalize() on a setter object obtained earlier
Finalize(sid) ==
  /\ wstate = "open"
  /\ Step(finalize(W, sid))

MakeSplit(split, rows, overwrite, keyless, preserve_order) ==
  /\ wstate = "open"
  /\ Ran(make_split(W, split, rows, overwrite, keyless, preserve_order))

AddToSplit(split, rows) ==
  /\ wstate = "open"
  /\ Ran(add_to_split(W, split, rows))

\* writer.name = value
SetProp(name, value) ==
  /\ wstate = "open"
  /\ Ran(Ret(WFDD_setattr(W, name, value), "ok"))

\* del writer.name
DelProp(name) ==
  /\ wstate = "open"
  /\ Ran(BaseFDD_delattr(W, name))

\* writer.close(): on success the file object is closed
Closes(r) ==
  /\ Within(r)
  /\ Become(r.w)
  /\ err' = r.err
  /\ wstate' = IF r.err = "ok" THEN "closed" ELSE "open"

Close ==
  /\ wstate = "open"
  /\ Closes(close(W))
  /\ fresh' = FALSE
  /\ UNCHANGED << exists, session >>

\* One writer session on rows and splits
Next ==
  \/ \E cols \in Schemas : Open(cols, FALSE)
  \/ \E k \in RowKeys : \E item \in Items(k) : SetItem(k, item)
  \/ \E split \in SplitNames, rows \in FileRowLists, kl \in BOOLEAN :
       MakeSplit(split, rows, FALSE, kl, TRUE)
  \/ \E k \in RowKeys : AddToSplit("s", << k >>)
  \/ Close

Spec == Init /\ [][Next]_vars

NextSetters ==
  \/ \E acm \in BOOLEAN : Open(Some(ColAB), acm)
  \/ \E k \in RowKeys : SetItem(k, DictItem([ c \in { "a", "b" } |-> IF c = "a" THEN CellA(k) ELSE CellB(k) ]))
  \/ \E k \in RowKeys : GetItem(k)
  \/ \E k \in RowKeys, name \in AssignNames, value \in AssignValues :
       Assign(k, name, value)
  \/ \E sid \in 1..Len(setters), name \in AssignNames, value \in AssignValues :
       SetterAssign(sid, name, value)
  \/ \E sid \in 1..Len(setters) : Finalize(sid)
  \/ MakeSplit("all_rows", << >>, FALSE, FALSE, TRUE)
  \/ Close

SpecSetters == Init /\ [][NextSetters]_vars

\* The life of a file: sessions of a writer with rows, splits and properties,
\* closed and reopened
NextFile ==
  \/ \E cols \in Schemas : Open(cols, FALSE)
  \/ \E cols \in ReopenSchemas : Reopen(cols, FALSE)
  \/ \E k \in RowKeys : \E item \in FileItems(k) : SetItem(k, item)
  \/ \E kl \in BOOLEAN : MakeSplit("s", FirstKey, TRUE, kl, TRUE)
  \/ \E k \in RowKeys : AddToSplit("s", << k >>)
  \/ \E pv \in FileProps : SetProp(pv[1], pv[2])
  \/ \E name \in PropNames : DelProp(name)
  \/ Close

SpecFile == Init /\ [][NextFile]_vars

\* One writer session on splits of every variant: rows under the keys in
\* either order, a split s over all keys or the first, a split t over the
\* keys in reverse order, and all_rows rebuilt in reverse order
SplitItem(k) ==
  DictItem([ c \in { "a", "b" } |-> IF c = "a" THEN CellA(k) ELSE CellB(k) ])

NextSplits ==
  \/ Open(Some(ColAB), FALSE)
  \/ \E k \in RowKeys : SetItem(k, SplitItem(k))
  \/ \E rows \in FileRowLists, kl, po \in BOOLEAN : MakeSplit("s", rows, FALSE, kl, po)
  \/ \E kl, po \in BOOLEAN : MakeSplit("t", Reverse(IdxKeys(index)), FALSE, kl, po)
  \/ MakeSplit("all_rows", Reverse(IdxKeys(index)), FALSE, FALSE, TRUE)
  \/ Close

SpecSplits == Init /\ [][NextSplits]_vars

\* One writer session in which rows are read back between the insertions
NextReads ==
  \/ \E cols \in Schemas : Open(cols, FALSE)
  \/ \E k \in RowKeys : \E item \in Items(k) : SetItem(k, item)
  \/ \E k \in RowKeys : GetItem(k)
  \/ \E k \in RowKeys, name \in AssignNames : ReadCellOf(k, name)
  \/ Close

SpecReads == Init /\ [][NextReads]_vars

\* WFDD.__init__ without the test that refuses an existing file
open_mode_overwriting(ex, overwrite, reopen) ==
  IF reopen /\ ~ex THEN "FileNotFoundError"
  ELSE IF reopen THEN "reopen"
  ELSE "create"

\* the tests WFDD.__init__ makes on its flags and os.path.exists(filename)
\* before it touches the file: the exception raised, or what it goes on to do
open_mode(ex, overwrite, reopen) ==
  IF ~overwrite /\ ~reopen /\ ex THEN "FileExistsError"
  ELSE IF reopen /\ ~ex THEN "FileNotFoundError"
  ELSE IF reopen THEN "reopen"
  ELSE "create"

\* a constructor raised e before it opened the file
Refused(e) ==
  /\ err' = e
  /\ UNCHANGED << exists, wstate, session, fresh, wvars, reader, dest, fork >>

\* WFDD(filename, columns=cols, overwrite=.., reopen=..)
OpenWith(cols, overwrite, reopen) ==
  /\ wstate # "open"
  /\ reader.state # "open"
  /\ CASE open_mode(exists, overwrite, reopen) = "create" -> Open(cols, FALSE)
       [] open_mode(exists, overwrite, reopen) = "reopen" -> Reopen(cols, FALSE)
       [] OTHER -> Refused(open_mode(exists, overwrite, reopen))

\* the ways the body of a with-block ends: normally, or by an exception
BodyOutcomes == { "ok", "RuntimeError" }

\* BaseFDD.__exit__ of a writer whose with-block ended with exc: close() is
\* called whatever exc is; an exception of close replaces exc, and exc goes
\* on to the caller otherwise, as __exit__ returns None
BaseFDD_exit(w, exc) ==
  Ret(close(w).w, IF close(w).err # "ok" THEN close(w).err ELSE exc)

\* the end of the with-block of the writer
Exit(exc) ==
  /\ wstate = "open"
  /\ Within(BaseFDD_exit(W, exc))
  /\ Become(BaseFDD_exit(W, exc).w)
  /\ err' = BaseFDD_exit(W, exc).err
  /\ wstate' = IF close(W).err = "ok" THEN "closed" ELSE "open"
  /\ fresh' = FALSE
  /\ UNCHANGED << exists, session >>

\* A writer in a with-block: rows, setters that may stay pending, and the
\* end of the block
NextScoped ==
  \/ \E cols \in Schemas : Open(cols, FALSE)
  \/ \E k \in RowKeys : \E item \in FileItems(k) : SetItem(k, item)
  \/ \E k \in RowKeys : GetItem(k)
  \/ \E k \in RowKeys, name \in { "a", "b" } : Assign(k, name, Str(<< 65 >>))
  \/ \E exc \in BodyOutcomes : Exit(exc)

SpecScoped == Init /\ [][NextScoped]_vars

----------------------------------------------------------------------------
(* A reader object on the closed file *)

\* the values assigned to the cells of a row view: 'C', 'CC' and None
ViewValues == { Str(<< 67 >>), Str(<< 67, 67 >>), NoneVal }

\* a handler of the open reader ran and left res = [r, disk, out]
ReaderRan(res) ==
  /\ reader' = res.r
  /\ disk' = res.disk
  /\ err' = IF Raised(res.out) THEN res.out[3] ELSE "ok"
  /\ UNCHANGED << exists, wstate, session, fresh, pos, index, setters, unfinished_setters,
                  split_to_index, custom_properties, columns, column_def,
                  column_to_serialize, allow_cell_modification, nrows, written, hsplits,
                  dest, fork >>

\* RFDD(filename, allow_cell_modification=acm) on the closed file
ROpen(acm) ==
  /\ wstate = "closed"
  /\ reader.state # "open"
  /\ load_indices_plus(disk, << "all_rows" >>).ok
  /\ ReaderRan(Out(RFDD_init(disk, << "all_rows" >>, acm), disk, NoneVal))

\* reader[k]
RGet(k) ==
  /\ reader.state = "open"
  /\ ReaderRan(RFDDImpl_getitem(disk, reader, k))

\* reader[k].name
RRead(k, name) ==
  /\ reader.state = "open"
  /\ reader.columns # None
  /\ ReaderRan(OnView(RFDDImpl_getitem(disk, reader, k),
                      View_getattr(disk, RFDDImpl_getitem(disk, reader, k).r, name)))

\* reader[k].name = value
RAssign(k, name, value) ==
  /\ reader.state = "open"
  /\ reader.columns # None
  /\ ReaderRan(OnView(RFDDImpl_getitem(disk, reader, k),
                      View_setattr(disk, RFDDImpl_getitem(disk, reader, k).r, name, value)))

\* reader[k][position] = value
RAssignItem(k, position, value) ==
  /\ reader.state = "open"
  /\ reader.columns # None
  /\ ReaderRan(OnView(RFDDImpl_getitem(disk, reader, k),
                      View_setitem(disk, RFDDImpl_getitem(disk, reader, k).r, position, value)))

\* reader.name
RAttr(name) ==
  /\ reader.state = "open"
  /\ ReaderRan(RFDD_attr(disk, reader, name))

\* reader.name = value
RSetAttr(name, value) ==
  /\ reader.state = "open"
  /\ ReaderRan(RFDD_setattr(disk, reader, name, value))

\* del reader.name
RDelAttr(name) ==
  /\ reader.state = "open"
  /\ ReaderRan(RFDD_delattr(disk, reader, name))

\* reader.load_new_split(split)
RLoadSplit(splits) ==
  /\ reader.state = "open"
  /\ ReaderRan(RFDD_load_new_split(disk, reader, splits))

\* reader.load_keys(fn, p); reader.filter(p) is load_keys(None, p)
RLoadKeys(fn, p) ==
  /\ reader.state = "open"
  /\ reader.columns # None
  /\ ReaderRan(RFDD_load_keys(disk, reader, fn, p))

\* reader.close(): BaseFDD.close closes the file handle; the object is not
\* used afterwards
RClose ==
  /\ reader.state = "open"
  /\ ReaderRan(Out([ state |-> "closed" ], disk, NoneVal))

\* a writer fills the file with rows 1, 2, ... and closes it, then readers
\* are opened on it
NextReader ==
  \/ reader.state # "open" /\ Open(Some(ColAB), FALSE)
  \/ \E item \in FileItems(IdxLen(index) + 1) : SetItem(IdxLen(index) + 1, item)
  \/ Close
  \/ \E acm \in BOOLEAN : ROpen(acm)
  \/ \E k \in RowKeys : RGet(k)
  \/ \E k \in RowKeys, name \in AssignNames : RRead(k, name)
  \/ \E k \in RowKeys, name \in { "a", "b" }, value \in ViewValues : RAssign(k, name, value)
  \/ \E k \in RowKeys : RAssign(k, "z", NoneVal) \/ RAssignItem(k, 1, Str(<< 67 >>))
  \/ RClose

SpecReader == Init /\ [][NextReader]_vars

\* a writer leaves a file with rows and a property; a reader that does not
\* allow cell modification is opened on it and used in every way
NextReadOnly ==
  \/ reader.state # "open" /\ Open(Some(ColAB), FALSE)
  \/ \E item \in FileItems(IdxLen(index) + 1) : SetItem(IdxLen(index) + 1, item)
  \/ SetProp("p", 2)
  \/ Close
  \/ ROpen(FALSE)
  \/ \E k \in RowKeys : RGet(k) \/ RRead(k, "a")
  \/ \E k \in RowKeys : RAssign(k, "a", Str(<< 67 >>)) \/ RAssignItem(k, 1, Str(<< 67 >>))
  \/ RAttr("p") \/ RSetAttr("p", 1) \/ RDelAttr("p")
  \/ RLoadSplit(<< "all_rows" >>)
  \/ \E fn \in { "None", "ord" }, p \in { "True", "a_is_A" } : RLoadKeys(fn, p)
  \/ RClose

SpecReadOnly == Init /\ [][NextReadOnly]_vars

\* RFDD(filename, allow_cell_modification=acm) on a path without a file:
\* open(filename, 'rb') or open(filename, 'rb+') raises
ROpenMissing(acm) ==
  /\ ~exists
  /\ reader.state # "open"
  /\ Refused("FileNotFoundError")

\* Writers opened in every mode on a path with and without a file, and
\* readers
NextOpen ==
  \/ \E overwrite, reopen \in BOOLEAN : OpenWith(Some(ColAB), overwrite, reopen)
  \/ \E k \in RowKeys : \E item \in FileItems(k) : SetItem(k, item)
  \/ Close
  \/ \E acm \in BOOLEAN : ROpenMissing(acm)
  \/ ROpen(FALSE)
  \/ \E k \in RowKeys : RGet(k)
  \/ RClose

SpecOpen == Init /\ [][NextOpen]_vars

----------------------------------------------------------------------------
(* Rows copied to a writer on a second path *)

\* the offset the parent's handle is left at by the raw reads of a copy of
\* the view v: RFDDImpl.read_chunk does not seek back
FposAfterCopy(f, r, v) ==
  LET raw == { i \in 1..Len(v.cache) : v.cache[i] = NoneVal }
  IN  IF raw = {} THEN r.fpos
      ELSE Min(v.index[(CHOOSE i \in raw : \A j \in raw : j <= i) + 1], Len(f))

\* an operation of the writer on the second path ran and left res
DestRan(d, e, r) ==
  /\ dest' = d
  /\ err' = e
  /\ reader' = r
  /\ UNCHANGED << exists, wstate, session, fresh, wvars, fork >>

\* WFDD(filename2, columns=cols, overwrite=True)
DOpen(cols) ==
  /\ dest.state = "none"
  /\ DestRan([ state |-> "open", w |-> WFDD_init(cols, FALSE) ], "ok", reader)

\* the end of writer2[k2] = view for the view in read_row_cache
DestCopied(res) ==
  DestRan([ state |-> "open", w |-> res.w ], res.err,
          IF res.err = "KeyError" THEN reader
          ELSE [ reader EXCEPT !.fpos = FposAfterCopy(disk, reader, The(reader.read_row_cache)) ])

\* writer2[k2] = reader[k], reader[k] being the view the reader holds
DCopy(k2) ==
  /\ dest.state = "open"
  /\ dest.w.nrows < MaxRows
  /\ reader.state = "open"
  /\ reader.columns # None
  /\ reader.read_row_cache # None
  /\ DestCopied(WFDD_setitem_row(dest.w, k2, The(reader.read_row_cache), disk))

\* writer2.close()
DClose ==
  /\ dest.state = "open"
  /\ DestRan([ state |-> "closed", disk |-> close(dest.w).w.disk ], close(dest.w).err, reader)

\* writer[k2] = writer[k1] on the first path: a new view of the writer's own
\* row, which WFDD.read_chunk reads back without moving the handle
SelfCopy(k2, k1) ==
  /\ wstate = "open"
  /\ columns # None
  /\ IdxContains(index, k1)
  /\ Step(WFDD_setitem_row(W, k2, FDDReadRow(IdxGet(index, k1), 0), disk))

\* a writer leaves a file of rows, a reader opens it, cells are read and
\* assigned through its views, and the views are copied to a second file
NextCopy ==
  \/ session = 0 /\ Open(Some(ColAB), FALSE)
  \/ \E item \in FileItems(IdxLen(index) + 1) : SetItem(IdxLen(index) + 1, item)
  \/ SelfCopy(IdxLen(index) + 1, 1)
  \/ Close
  \/ reader.state = "none" /\ ROpen(FALSE)
  \/ \E k \in RowKeys : RGet(k) \/ RRead(k, "a")
  \/ \E k \in RowKeys, name \in { "a", "b" }, value \in { Str(<< 67 >>), NoneVal } :
       RAssign(k, name, value)
  \/ reader.state = "open" /\ DOpen(Some(ColAB))
  \/ \E k2 \in RowKeys : DCopy(k2)
  \/ DClose

SpecCopy == Init /\ [][NextCopy]_vars

----------------------------------------------------------------------------
(* os.fork() with a live reader or writer.  A descriptor refers to an open  *)
(* file description, which holds the offset; the child inherits the         *)
(* parent's descriptors and with them its descriptions.                     *)

Procs == { "parent", "child" }

\* the objects with a hook of os.register_at_fork(after_in_child=...) that
\* closes the handle and opens the path again: RFDDImpl.__init__ registers
\* _after_fork, WFDD.__init__ registers nothing
reopens_after_fork(kind) == kind = "reader"

\* os.fork() with a live object of the kind whose handle is at offset:
\* description 1 is the parent's, description 2 the one a hook opens in the
\* child; pc is where each process is in read_chunk, got the last (key,
\* value) it read
os_fork(kind, offset) ==
  [ state |-> "forked", kind |-> kind,
    off |-> << offset, 0 >>,
    fd |-> [ p \in Procs |-> IF p = "child" /\ reopens_after_fork(kind) THEN 2 ELSE 1 ],
    pc |-> [ p \in Procs |-> [ at |-> "idle", key |-> 0, saved |-> 0 ] ],
    got |-> [ p \in Procs |-> << >> ] ]

\* read_chunk up to the read: file.seek(start), and before it
\* pos = file.tell() in WFDD.read_chunk
fork_seek(fk, p, k, start) ==
  [ fk EXCEPT !.pc[p] = [ at |-> "seeked", key |-> k, saved |-> fk.off[fk.fd[p]] ],
              !.off[fk.fd[p]] = start ]

\* file.read(n) at the offset of the description, and the value decoded
\* from the bytes with the deserializer codec (None: pickle)
fork_read(fk, f, p, n, codec) ==
  [ fk EXCEPT !.off[fk.fd[p]] = Min(@ + n, Len(f)),
              !.pc[p].at = IF fk.kind = "writer" THEN "read" ELSE "idle",
              !.got[p] = << fk.pc[p].key,
                            IF codec = None
                            THEN Unpickle(read_chunk(f, fk.off[fk.fd[p]], fk.off[fk.fd[p]] + n))
                            ELSE type_to_deserializer(The(codec)[1],
                                   read_chunk(f, fk.off[fk.fd[p]], fk.off[fk.fd[p]] + n)) >> ]

\* the end of WFDD.read_chunk: file.seek(pos)
fork_restore(fk, p) ==
  [ fk EXCEPT !.off[fk.fd[p]] = fk.pc[p].saved, !.pc[p].at = "idle" ]

\* the index and the deserializers of the forked object
ForkIndex == IF fork.kind = "reader" THEN reader.index ELSE index
ForkCodec == IF fork.kind = "reader" THEN reader.column_to_deserialize ELSE column_to_serialize

Forked(fk) ==
  /\ fork' = fk
  /\ UNCHANGED << exists, wstate, err, session, fresh, wvars, reader, dest >>

\* os.fork() while the reader, or the writer, is open
Fork(kind) ==
  /\ fork.state = "none"
  /\ IF kind = "reader" THEN reader.state = "open" /\ IdxLen(reader.index) > 0
     ELSE wstate = "open" /\ IdxLen(index) > 0
  /\ Forked(os_fork(kind, IF kind = "reader" THEN reader.fpos ELSE pos))

\* process p starts to read the first cell of row k
PSeek(p, k) ==
  /\ fork.state = "forked"
  /\ fork.pc[p].at = "idle"
  /\ IdxContains(ForkIndex, k)
  /\ Forked(fork_seek(fork, p, k, IdxGet(ForkIndex, k)[1]))

\* process p reads the bytes it has sought
PRead(p) ==
  /\ fork.state = "forked"
  /\ fork.pc[p].at = "seeked"
  /\ Forked(fork_read(fork, disk, p,
                      IdxGet(ForkIndex, fork.pc[p].key)[2] - IdxGet(ForkIndex, fork.pc[p].key)[1],
                      ForkCodec))

\* process p, reading through a writer, seeks back
PRestore(p) ==
  /\ fork.state = "forked"
  /\ fork.pc[p].at = "read"
  /\ Forked(fork_restore(fork, p))

\* the full row of key k for the schema of the open writer
FullItem(k) ==
  IF columns = None THEN ValueItem(CellA(k))
  ELSE DictItem([ c \in { "a", "b" } |-> IF c = "a" THEN CellA(k) ELSE CellB(k) ])

\* A writer fills a file, a reader opens it after the close; the process
\* forks with the writer or the reader live, and parent and child read rows
NextFork ==
  \/ fork.state = "none" /\ session = 0 /\ \E cols \in Schemas : Open(cols, FALSE)
  \/ fork.state = "none" /\ SetItem(IdxLen(index) + 1, FullItem(IdxLen(index) + 1))
  \/ fork.state = "none" /\ Close
  \/ fork.state = "none" /\ ROpen(FALSE)
  \/ \E kind \in { "reader", "writer" } : Fork(kind)
  \/ \E p \in Procs, k \in RowKeys : PSeek(p, k)
  \/ \E p \in Procs : PRead(p)
  \/ \E p \in Procs : PRestore(p)

SpecFork == Init /\ [][NextFork]_vars

----------------------------------------------------------------------------
(* RFDDCombined: RFDD('path^s,path^t'), one RFDDImpl per name of the list *)

\* RFDDCombined.__init__ over the splits of one file
RFDDCombined_init(f, splits) ==
  [ rfdds |-> [ j \in 1..Len(splits) |-> load_indices(f, splits[j]) ],
    all_keyless |-> \A j \in 1..Len(splits) : load_indices(f, splits[j]).index.kind = "keyless",
    \* warnings.warn(...) if not self.all_keyless and sum(which_are_keyless) > 1
    warned |-> /\ \E j \in 1..Len(splits) : load_indices(f, splits[j]).index.kind # "keyless"
               /\ Cardinality({ j \in 1..Len(splits) :
                                  load_indices(f, splits[j]).index.kind = "keyless" }) > 1 ]

\* sum([len(i) for i in self.rfdds]) over the first j constituents
RECURSIVE SumLen(_, _)
SumLen(c, j) == IF j = 0 THEN 0 ELSE SumLen(c, j - 1) + IdxLen(c.rfdds[j].index)

\* RFDDCombined.__len__
RFDDCombined_len(c) == SumLen(c, Len(c.rfdds))

\* RFDDCombined.__contains__ for an integer key
RFDDCombined_contains(c, key) ==
  IF c.all_keyless THEN key >= 0 /\ key < RFDDCombined_len(c)
  ELSE \E j \in 1..Len(c.rfdds) : IdxContains(c.rfdds[j].index, key)

\* the loop of RFDDCombined.__getitem__ from constituent j on: the first
\* constituent that contains the key answers; keyless constituents are
\* walked subtracting their lengths
RECURSIVE RFDDCombined_walk(_, _, _, _)
RFDDCombined_walk(f, c, j, key) ==
  IF j > Len(c.rfdds) THEN << ErrVal("KeyError") >>
  ELSE IF IdxContains(c.rfdds[j].index, key) THEN RFDD_getitem(f, c.rfdds[j], key)
  ELSE RFDDCombined_walk(f, c, j + 1,
                         IF c.all_keyless THEN key - IdxLen(c.rfdds[j].index) ELSE key)

\* RFDDCombined.__getitem__
RFDDCombined_getitem(f, c, key) ==
  IF c.all_keyless /\ ~RFDDCombined_contains(c, key) THEN << ErrVal("KeyError") >>
  ELSE RFDDCombined_walk(f, c, 1, key)

\* the keys of the constituents from j on, one after the other
RECURSIVE ChainKeys(_, _)
ChainKeys(c, j) ==
  IF j > Len(c.rfdds) THEN << >> ELSE IdxKeys(c.rfdds[j].index) \o ChainKeys(c, j + 1)

\* RFDDCombined.keys()
RFDDCombined_keys(c) ==
  IF c.all_keyless THEN [ i \in 1..RFDDCombined_len(c) |-> i - 1 ] ELSE ChainKeys(c, 1)

----------------------------------------------------------------------------
(* The writer object after close(): BaseFDD.close has closed the file       *)
(* object, whose tell, seek, read and write raise ValueError from then on.  *)
(* The object keeps its index, its setters and its properties.              *)

\* WFDD.__setitem__: the test of the key, then the tests of the item or
\* self.file.tell(), which all raise ValueError
setitem_after_close(w, key, item) ==
  Ret(w, IF IdxContains(w.index, key) THEN "KeyError" ELSE "ValueError")

\* FDDSetter.finalize: parent[key] = data raises, and the setter stays in
\* unfinished_setters
finalize_after_close(w, sid) ==
  finalize_rest(setitem_after_close(w, w.setters[sid].key, DictItem(w.setters[sid].data)),
                sid, w.setters[sid].key)

\* FDDSetter.__setattr__: a finalized setter raises (the in-place write
\* needs the file), a pending one stores the value and finalizes at the
\* last column
FDDSetter_setattr_after_close(w, sid, name, value) ==
  IF w.setters[sid].finalized
  THEN Ret(w, IF ~w.allow_cell_modification THEN "AttributeError"
              ELSE IF FinalizedSetterWrite(w, sid, name, value) = "ok" THEN "ValueError"
              ELSE FinalizedSetterWrite(w, sid, name, value))
  ELSE IF name \notin SeqToSet(The(w.columns)) THEN Ret(w, "AttributeError")
  ELSE IF Cardinality(DOMAIN w.setters[sid].data \cup { name }) = Len(The(w.columns))
  THEN finalize_after_close(
         [ w EXCEPT !.setters[sid].data =
             [ c \in DOMAIN w.setters[sid].data \cup { name } |->
                 IF c = name THEN value ELSE w.setters[sid].data[c] ] ], sid)
  ELSE Ret([ w EXCEPT !.setters[sid].data =
               [ c \in DOMAIN w.setters[sid].data \cup { name } |->
                   IF c = name THEN value ELSE w.setters[sid].data[c] ] ], "ok")

\* writer[key].name = value: WFDD.__getitem__ of a key in the index calls
\* read_chunk or self.file.tell(), of another key it hands out the setter
assign_after_close(w, key, name, value) ==
  IF IdxContains(w.index, key) THEN Ret(w, "ValueError")
  ELSE IF w.columns = None THEN Ret(w, "KeyError")
  ELSE FDDSetter_setattr_after_close(
         WFDD_getitem_setter(w, key),
         DictGet(WFDD_getitem_setter(w, key).unfinished_setters, key), name, value)

\* WFDD.close: the setters asked for since are finalized, then the first
\* self.file.tell() of the metadata raises
close_after_close(w) ==
  IF w.unfinished_setters # << >>
  THEN finalize_after_close(w, w.unfinished_setters[1].v)
  ELSE Ret(w, "ValueError")

SetItemClosed(k, item) ==
  /\ wstate = "closed"
  /\ Ran(setitem_after_close(W, k, item))

AssignClosed(k, name, value) ==
  /\ wstate = "closed"
  /\ Ran(assign_after_close(W, k, name, value))

CloseClosed ==
  /\ wstate = "closed"
  /\ Ran(close_after_close(W))

\* One writer session, and what is asked of the writer after its close
NextClosed ==
  \/ \E cols \in Schemas, acm \in BOOLEAN : session = 0 /\ Open(cols, acm)
  \/ \E item \in FileItems(IdxLen(index) + 1) : SetItem(IdxLen(index) + 1, item)
  \/ \E k \in RowKeys : Assign(k, "a", Str(<< 65 >>))
  \/ Close
  \/ \E k \in RowKeys : \E item \in Items(k) : SetItemClosed(k, item)
  \/ \E k \in RowKeys, name \in AssignNames, value \in AssignValues :
       AssignClosed(k, name, value)
  \/ CloseClosed

SpecClosed == Init /\ [][NextClosed]_vars

----------------------------------------------------------------------------
(* An index object on its own, before any writer is opened: the variable    *)
(* index holds FDDIndexKeyless(2, byte_width=1) or FDDIndexGeneral(2,       *)
(* byte_width=1), and err what the last assignment raised.                  *)

MaxSlots == 3         \* entries an index is grown to

\* the indices tried on a keyless index and the rows of offsets assigned
KeylessIdx == (0 - 2)..(MaxSlots + 1)
IndexVals == { << 0, 1 >>, << 1, 3 >> }

\* index = FDDIndexKeyless(2, byte_width=1)
NewKeyless ==
  /\ wstate = "none"
  /\ index.byte_width # 1
  /\ Ran(Ret([ W EXCEPT !.index = [ FDDIndexKeyless(2) EXCEPT !.byte_width = 1 ] ], "ok"))

\* index[idx] = val
KeylessSet(idx, val) ==
  /\ wstate = "none"
  /\ index.byte_width = 1
  /\ index.kind = "keyless"
  /\ Len(index.buffer) < 2 * MaxSlots
  /\ Ran(Ret([ W EXCEPT !.index = KeylessSetItem(index, idx, val).ix ],
             KeylessSetItem(index, idx, val).err))

NextKeyless ==
  \/ NewKeyless
  \/ \E idx \in KeylessIdx, val \in IndexVals : KeylessSet(idx, val)

SpecKeyless == Init /\ [][NextKeyless]_vars

\* the keys tried on a general index, and the values: rows of two offsets,
\* a row of one, and rows with an offset of more than one byte
GeneralKeys == 1..MaxSlots
GeneralVals == IndexVals \cup { << 1 >>, << 1, 300 >>, << 300, 1 >> }

\* index = FDDIndexGeneral(2, byte_width=1)
NewGeneral ==
  /\ wstate = "none"
  /\ index.byte_width # 1
  /\ Ran(Ret([ W EXCEPT !.index = [ FDDIndexGeneral(2) EXCEPT !.byte_width = 1 ] ], "ok"))

\* index[k] = val
GeneralSet(k, val) ==
  /\ wstate = "none"
  /\ index.byte_width = 1
  /\ index.kind = "general"
  /\ Ran(Ret([ W EXCEPT !.index = GeneralSetItem(index, k, val).ix ],
             GeneralSetItem(index, k, val).err))

NextGeneral ==
  \/ NewGeneral
  \/ \E k \in GeneralKeys, val \in GeneralVals : GeneralSet(k, val)

SpecGeneral == Init /\ [][NextGeneral]_vars

----------------------------------------------------------------------------
(* add_column(input_path, output_path, column_name, column_data): the rows  *)
(* of a closed file written to a second path with one more cell.  f is the  *)
(* source file, column_data a sequence of [k, v]; the result is [err,       *)
(* created, disk]: what was raised, whether the second path has a file, and *)
(* its bytes.                                                               *)

\* for key, value in column_data: the bytes of the row, the new cell after
\* them, and the offsets of the row moved to the writer's position
RECURSIVE AddColumnRows(_, _, _, _, _)
AddColumnRow(w, row_indices, f, column_data, column_type, row_index, new_data_for_row) ==
  LET end == row_index[Len(row_index)]
      row_data == read_chunk(f, row_index[1], end)
      current_index == Append(row_index, end + Len(new_data_for_row))
      r == IdxSetItem(w.index, Head(column_data).k,
                      [ i \in 1..Len(current_index) |->
                          current_index[i] - current_index[1] + w.pos ])
  IN  IF ~r.ok THEN Ret(w, r.err)
      ELSE AddColumnRows([ w EXCEPT !.index = r.ix,
                                    !.disk = WriteAt(@, w.pos, row_data \o new_data_for_row),
                                    !.pos = @ + Len(row_data) + Len(new_data_for_row) ],
                         row_indices, f, Tail(column_data), column_type)

AddColumnRows(w, row_indices, f, column_data, column_type) ==
  IF column_data = << >> THEN Ret(w, "ok")
  ELSE IF ~IdxContains(row_indices, Head(column_data).k)
  THEN Ret(w, IF row_indices.kind = "keyless" THEN "IndexError" ELSE "KeyError")
  ELSE AddColumnRow(w, row_indices, f, column_data, column_type,
                    IdxGet(row_indices, Head(column_data).k),
                    type_to_serializer(column_type, Head(column_data).v))

\* for split in rfdd.get_available_splits(): load_new_split(split);
\* wfdd.make_split(split, list(rfdd.index.keys()))
RECURSIVE AddColumnSplits(_, _, _, _)
AddColumnSplit(r, f, ii, es) ==
  IF r.err # "ok" THEN r ELSE AddColumnSplits(r.w, f, ii, es)

AddColumnSplits(w, f, ii, es) ==
  IF es = << >> THEN Ret(w, "ok")
  ELSE AddColumnSplit(make_split(w, Head(es).name,
                                 IdxKeys(LoadSplitObject(f, ii, Head(es))),
                                 FALSE, FALSE, TRUE),
                      f, ii, Tail(es))

\* for k in rfdd.custom_properties.keys(): wfdd.__setattr__(k, rfdd.__getattr__(k))
RECURSIVE AddColumnProps(_, _)
AddColumnProps(w, props) ==
  IF props = << >> THEN w
  ELSE AddColumnProps(WFDD_setattr(w, Head(props).k, Head(props).v), Tail(props))

\* the end of the two with-blocks: the writer is closed whatever the body
\* raised
AddColumnExit(r) ==
  [ err |-> BaseFDD_exit(r.w, r.err).err, created |-> TRUE,
    disk |-> BaseFDD_exit(r.w, r.err).w.disk ]

AddColumnTail(r, f, ii) ==
  AddColumnExit(IF r.err # "ok" THEN r
                ELSE Ret(AddColumnProps(r.w, LoadProps(f, ii)), "ok"))

AddColumnBody(r, f, ii) ==
  AddColumnTail(IF r.err # "ok" THEN r
                ELSE AddColumnSplits(r.w, f, ii, Tagged(ii, "_split_")), f, ii)

\* the name is tested before any row is copied: a file that declares the
\* column is refused
add_column(f, column_name, column_data, column_type) ==
  IF FileColumns(f, ReadIndexIndex(f).ii) = None
  THEN [ err |-> "TypeError", created |-> FALSE, disk |-> << >> ]
  ELSE IF column_name \in SeqToSet(The(FileColumns(f, ReadIndexIndex(f).ii)))
  THEN [ err |-> "ValueError", created |-> FALSE, disk |-> << >> ]
  ELSE AddColumnBody(
         AddColumnRows(
           WFDD_init(Some(Append(The(FileColumnDef(f, ReadIndexIndex(f).ii)),
                                 [ name |-> column_name, codec |-> column_type ])),
                     FALSE),
           load_indices(f, "all_rows").index, f, column_data, column_type),
         f, ReadIndexIndex(f).ii)

\* the values of the new column: a string made of the key, and None for
\* key 2 when the column is pickled
NewCell(k, column_type) ==
  IF k = 2 /\ column_type = "any" THEN NoneVal ELSE Str(<< 67, 48 + k >>)

\* column_data: a value for every key of the file, or for the first only
ColumnData(column_type) ==
  { [ i \in 1..n |-> [ k |-> IdxKeys(index)[i],
                       v |-> NewCell(IdxKeys(index)[i], column_type) ] ] :
      n \in { Min(1, IdxLen(index)), IdxLen(index) } }

\* add_column(path, path2, column_name, column_data) on the closed file
AddColumn(column_name, column_data, column_type) ==
  /\ wstate = "closed"
  /\ dest.state = "none"
  /\ dest' = [ state |-> "added", column_name |-> column_name,
               column_data |-> column_data, column_type |-> column_type,
               res |-> add_column(disk, column_name, column_data, column_type) ]
  /\ err' = add_column(disk, column_name, column_data, column_type).err
  /\ UNCHANGED << exists, wstate, session, fresh, wvars, reader, fork >>

\* A file of rows, a split and properties is written and closed, and a
\* column is added to it on a second path
NextAddColumn ==
  \/ session = 0 /\ Open(Some(ColAB), FALSE)
  \/ \E item \in FileItems(IdxLen(index) + 1) : SetItem(IdxLen(index) + 1, item)
  \/ \E rows \in FileRowLists, kl, po \in BOOLEAN : MakeSplit("s", rows, FALSE, kl, po)
  \/ \E pv \in FileProps : SetProp(pv[1], pv[2])
  \/ Close
  \/ \E column_name \in { "z", "a" }, column_type \in { "any", "str" } :
       \E column_data \in ColumnData(column_type) :
         AddColumn(column_name, column_data, column_type)

SpecAddColumn == Init /\ [][NextAddColumn]_vars

----------------------------------------------------------------------------
(* What a reader opened on the file sees *)

\* RFDD(filename): a reader on the bytes of the file, split all_rows loaded
Reader == load_indices(disk, "all_rows")

\* reader[k]
ReadRow(k) == RFDD_getitem(disk, Reader, k)

\* a closed file no make_split was ever run on
PlainClosed == wstate = "closed" /\ hsplits = << >>

----------------------------------------------------------------------------
(* Round trips of rows *)

\* C1: after insertions writer[k] = v under distinct keys into a writer
\* without columns and a close, a reader returns for every inserted k the
\* value v that was inserted, the null value included, and len(reader) is
\* the number of insertions.
C1_SchemalessRoundTrip ==
  (PlainClosed /\ columns = None) =>
    /\ Reader.ok
    /\ IdxLen(Reader.index) = Len(written)
    /\ \A i \in 1..Len(written) : ReadRow(written[i].key) = written[i].item

\* the value read for a cell written as v under codec t: a value whose
\* encoding has no bytes reads as the null value
ReadsAs(t, v) ==
  IF v = NoneVal \/ type_to_serializer(t, v) = << >> THEN NoneVal ELSE v

\* a dict whose keys are column names, for a key that is not in the default
\* (general) row index of an open writer with columns
MappingInsert(k, item) ==
  /\ wstate = "open"
  /\ columns # None
  /\ index.kind = "general"
  /\ ~IdxContains(index, k)
  /\ item.kind = "dict"
  /\ DOMAIN item.d \subseteq SeqToSet(The(columns))

\* what writer[k] = item does to the writer in the current state
C2_Accepts ==
  \A k \in RowKeys : \A item \in Items(k) :
    MappingInsert(k, item) =>
      LET r == WFDD_setitem(W, k, item) IN
        IF DOMAIN item.d = {}
        THEN r.err = "ValueError" /\ r.w = W
        ELSE /\ r.err = "ok"
             /\ IdxContains(r.w.index, k)
             /\ Len(r.w.written) = Len(written) + 1
             /\ r.w.written[Len(r.w.written)].key = k
             /\ \A c \in DOMAIN item.d :
                  r.w.written[Len(r.w.written)].item[PosOf(The(columns), c)] = item.d[c]

C2_ReadsBack ==
  (PlainClosed /\ columns # None) =>
    \A i \in 1..Len(written) :
      ReadRow(written[i].key) =
        [ j \in 1..Len(The(columns)) |->
            ReadsAs(The(column_to_serialize)[j], written[i].item[j]) ]

----------------------------------------------------------------------------
(* Keys of the row index *)

\* the offsets of the first insertion under key k
IsFirstInsertion(i, k) ==
  /\ written[i].key = k
  /\ \A j \in 1..(i - 1) : written[j].key # k

\* C3: writer[k] = item for a key k already in the row index raises a key
\* error and leaves the row index, the payload bytes and the append position
\* unchanged, so that after any sequence of writer operations every key
\* occurs once in the index and maps to the offsets of its first (only)
\* insertion.
C3_DuplicateRejected ==
  /\ [][\A k \in RowKeys : \A item \in Items(k) :
          (IdxContains(index, k) /\ SetItem(k, item)) =>
            err' = "KeyError" /\ UNCHANGED << index, disk, pos >>]_vars
  /\ [](\A i, j \in 1..IdxLen(index) :
          IdxKeys(index)[i] = IdxKeys(index)[j] => i = j)
  /\ [](\A k \in SeqToSet(IdxKeys(index)) :
          \E i \in 1..Len(written) :
            IsFirstInsertion(i, k) /\ IdxGet(index, k) = written[i].offsets)

----------------------------------------------------------------------------
(* Splits of the closed file *)

\* the split ix holds the row written at the offsets offs, under any key
HoldsRow(ix, offs) ==
  \E k \in SeqToSet(IdxKeys(ix)) : IdxGet(ix, k) = offs

\* C4: after any sequence of writer operations ending in close, the split
\* all_rows is present in the file and contains every row that was ever
\* written to the file.
C4_AllRowsComplete ==
  wstate = "closed" =>
    /\ Reader.ok
    /\ \A i \in 1..Len(written) : HoldsRow(Reader.index, written[i].offsets)

\* the names of the splits of the closed file
FileSplits == { Reader.split_to_index[i].name : i \in 1..Len(Reader.split_to_index) }

\* C5: in every closed file, for every split s the keys of s are a subset of
\* the keys of all_rows, and for every key k of s the row read after
\* load_new_split(s) equals the row read for k after
\* load_new_split('all_rows').  Stated for the splits stored with their
\* keys; a keyless split is addressed by position.
C5_SplitClosure ==
  wstate = "closed" =>
    \A s \in FileSplits :
      LET rs == load_indices(disk, s) IN
        rs.index.kind # "keyless" =>
          \A k \in SeqToSet(IdxKeys(rs.index)) :
            /\ IdxContains(Reader.index, k)
            /\ RFDD_getitem(disk, rs, k) = ReadRow(k)

----------------------------------------------------------------------------
(* The trailer of the closed file *)

\* the section table found from the last 8 bytes of the file
Trailer == ReadIndexIndex(disk)

\* the names of the sections with a tag, in the order of the table
SectionNames(tag) ==
  [ i \in 1..Len(Tagged(Trailer.ii, tag)) |-> Tagged(Trailer.ii, tag)[i].name ]

\* C6: after every successful close, first or after a reopen, the file ends
\* with the section table followed by 8 bytes holding its little-endian
\* length; the table is the one this close wrote (it lists the properties and
\* splits the writer holds, so nothing of an earlier trailer follows or
\* replaces it), the file ends at the position the writer stopped at, and
\* every (start, end) range of the table lies before the table.
C6_TrailerInvariant ==
  wstate = "closed" =>
    /\ Len(disk) >= TrailerLen
    /\ Trailer.ok
    /\ Len(disk) = pos
    /\ SubSeq(disk, Trailer.start + 1, Len(disk) - TrailerLen) = DumpIndexIndex(Trailer.ii)
    /\ SubSeq(disk, Len(disk) - TrailerLen + 1, Len(disk))
         = ToBytes(Len(DumpIndexIndex(Trailer.ii)), TrailerLen)
    /\ SectionNames("_prop_") = [ i \in 1..Len(custom_properties) |-> custom_properties[i].k ]
    /\ SectionNames("_split_") = [ i \in 1..Len(split_to_index) |-> split_to_index[i].k ]
    /\ HasTag(Trailer.ii, "_columns_") <=> columns # None
    /\ \A i \in 1..Len(Trailer.ii) :
         /\ 0 <= Trailer.ii[i].start
         /\ Trailer.ii[i].start <= Trailer.ii[i].end
         /\ Trailer.ii[i].end <= Trailer.start
    /\ Trailer.ii[Len(Trailer.ii)].end = Trailer.start

\* a file closed by a reopening writer, with rows, a split and a property
C6_Witness ==
  /\ wstate = "closed"
  /\ session = 2
  /\ Len(written) = 2
  /\ DictHas(split_to_index, "s")
  /\ Len(custom_properties) = 1
  /\ Len(disk) = pos

----------------------------------------------------------------------------
(* Reopening *)

\* a writer takes over the closed file with reopen=True
ReopenStep == wstate # "open" /\ exists /\ wstate' = "open" /\ session' = session + 1

\* the keys of the splits of a table of splits, by name
SplitKeys(splits) ==
  [ i \in 1..Len(splits) |-> [ k |-> splits[i].k, keys |-> IdxKeys(splits[i].v) ] ]

\* the reopening writer starts from what the closed writer held
ReopenKeeps ==
  /\ custom_properties' = custom_properties
  /\ IdxKeys(index') = IdxKeys(index)
  /\ \A k \in SeqToSet(IdxKeys(index)) : IdxGet(index', k) = IdxGet(index, k)
  /\ SplitKeys(split_to_index') = SplitKeys(DictDel(split_to_index, "all_rows"))

\* the closed file gives the reader what the writer held and wrote
FileHolds ==
  /\ \A i \in 1..Len(written) : ReadRow(written[i].key) = written[i].item
  /\ LoadProps(disk, Trailer.ii) = custom_properties
  /\ \A i \in 1..Len(split_to_index) :
       /\ split_to_index[i].k \in FileSplits
       /\ IdxKeys(load_indices(disk, split_to_index[i].k).index)
            = IdxKeys(split_to_index[i].v)

\* C7: when a writer inserts rows, properties and splits and closes, and a
\* second writer opened with reopen=True inserts rows under new keys, changes
\* or adds properties, extends or adds splits and closes, a reader sees every
\* row of both sessions with its original value, every split with the keys
\* of both sessions and every property with its latest value.
C7_ReopenAndExtend ==
  /\ [][ReopenStep => ReopenKeeps]_vars
  /\ [](wstate = "closed" => FileHolds)

\* what a reader gets from the file f: columns, column definition,
\* properties, and for every split its keys with the rows read under them
Content(f) ==
  LET t == ReadIndexIndex(f)
      names == { Tagged(t.ii, "_split_")[i].name : i \in 1..Len(Tagged(t.ii, "_split_")) }
      rows(rd) == [ i \in 1..IdxLen(rd.index) |->
                      [ key |-> IdxKeys(rd.index)[i],
                        row |-> RFDD_getitem(f, rd, IdxKeys(rd.index)[i]) ] ]
  IN  [ columns |-> FileColumns(f, t.ii),
        column_def |-> FileColumnDef(f, t.ii),
        properties |-> LoadProps(f, t.ii),
        splits |-> { [ name |-> n, rows |-> rows(load_indices(f, n)) ] : n \in names } ]

\* C8: reopen followed by close without writes is the identity on the
\* logical content: the same all_rows keys and row values, the same splits,
\* the same column definitions (also when a columns argument is passed to
\* the reopening writer) and the same properties; a file closed without
\* writes reopens to an empty all_rows.
C8_ReopenCloseIdentity ==
  /\ [][(fresh /\ wstate = "open" /\ wstate' = "closed") =>
          Content(disk') = Content(disk)]_vars
  /\ [][(ReopenStep /\ written = << >>) => IdxLen(index') = 0]_vars

----------------------------------------------------------------------------
(* Setters *)

\* the columns the pending setter of key k has, none when k has no setter
PendingColumns(k) ==
  IF DictHas(unfinished_setters, k)
  THEN DOMAIN setters[DictGet(unfinished_setters, k)].data
  ELSE {}

\* the assignment leaves columns unset: in the writer w it gives, the setter
\* of k keeps the value and nothing was appended
StaysPending(w, k, name, value) ==
  /\ DictHas(w.unfinished_setters, k)
  /\ DictHas(unfinished_setters, k) =>
       /\ DictGet(w.unfinished_setters, k) = DictGet(unfinished_setters, k)
       /\ Len(w.setters) = Len(setters)
  /\ DOMAIN w.setters[DictGet(w.unfinished_setters, k)].data = PendingColumns(k) \cup { name }
  /\ w.setters[DictGet(w.unfinished_setters, k)].data[name] = value
  /\ ~IdxContains(w.index, k)
  /\ w.index = index /\ w.disk = disk /\ w.pos = pos
  /\ w.nrows = nrows /\ w.written = written

\* the assignment sets the last column: in the writer w it gives, one row
\* was appended for k
AutoFinalizes(w, k, name, value) ==
  /\ w.nrows = nrows + 1
  /\ Len(w.written) = Len(written) + 1
  /\ w.written[Len(w.written)].key = k
  /\ w.written[Len(w.written)].item[PosOf(The(columns), name)] = value
  /\ IdxKeys(w.index) = Append(IdxKeys(index), k)
  /\ IdxGet(w.index, k) = w.written[Len(w.written)].offsets
  /\ ~DictHas(w.unfinished_setters, k)

\* C9: for a writer with C columns and a key k not in the index, the column
\* assignments through writer[k] accumulate in one pending setter; while
\* fewer than C distinct columns are set, k is not in the index and nothing
\* is appended; the assignment that makes all C columns set appends the full
\* row exactly once, puts k in the index and removes the setter from the
\* unfinished setters.
C9_SetterAutoFinalize ==
  (wstate = "open" /\ columns # None) =>
    \A k \in RowKeys, name \in SeqToSet(The(columns)), value \in AssignValues :
      ~IdxContains(index, k) =>
        LET r == WriterAssign(W, k, name, value) IN
          /\ r.err = "ok"
          /\ IF Cardinality(PendingColumns(k) \cup { name }) < Len(The(columns))
             THEN StaysPending(r.w, k, name, value)
             ELSE AutoFinalizes(r.w, k, name, value)

\* a setter that finalized itself at its last column
C9_Witness ==
  /\ wstate = "open"
  /\ err = "ok"
  /\ \E sid \in 1..Len(setters) :
       /\ setters[sid].finalized
       /\ DOMAIN setters[sid].data = SeqToSet(The(columns))
       /\ IdxContains(index, setters[sid].key)
       /\ ~DictHas(unfinished_setters, setters[sid].key)
       /\ written # << >>
       /\ written[Len(written)].key = setters[sid].key

\* the bytes of the file outside the cell of column name of the row of k
OutsideCell(f, k, name) ==
  LET row_index == IdxGet(index, k)
      c == PosOf(The(columns), name)
  IN  [ i \in 1..Len(f) |->
          IF row_index[c] < i /\ i <= row_index[c + 1] THEN 0 ELSE f[i] ]

Rejected(r) == r.err = "AttributeError" /\ r.w = W

----------------------------------------------------------------------------
(* Pending setters at close and at finalize *)

\* the row a reader is to return for the values data set under the columns
\* of the writer: the set values, and the null value for the other columns
RowOf(data) ==
  [ j \in 1..Len(The(columns)) |->
      IF The(columns)[j] \in DOMAIN data
      THEN ReadsAs(The(column_to_serialize)[j], data[The(columns)[j]])
      ELSE NoneVal ]

\* the setter objects pending in the writer
PendingSetters == { unfinished_setters[i].v : i \in 1..Len(unfinished_setters) }

\* C11: for any set of keys that have a pending setter when close is called,
\* close succeeds, writes one row per such key with the columns that were
\* set and empty cells for the others, leaves the unfinished-setters table
\* empty and emits the trailer, so that a reader finds all those keys.
C11_CloseFlushes ==
  (wstate = "open" /\ columns # None /\ unfinished_setters # << >>) =>
    LET r == close(W)
        rd == load_indices(r.w.disk, "all_rows")
    IN  /\ r.err = "ok"
        /\ r.w.unfinished_setters = << >>
        /\ r.w.nrows = nrows + Len(unfinished_setters)
        /\ rd.ok
        /\ \A sid \in PendingSetters :
             /\ IdxContains(rd.index, setters[sid].key)
             /\ RFDD_getitem(r.w.disk, rd, setters[sid].key) = RowOf(setters[sid].data)

\* the cells of the row appended for the values data: the set values, and
\* the null value for the other columns
CellsOf(data) ==
  [ j \in 1..Len(The(columns)) |->
      IF The(columns)[j] \in DOMAIN data THEN data[The(columns)[j]] ELSE NoneVal ]

\* C12: finalize() on a pending setter, for every subset of the column names
\* that has been set on it (the subset with no column included), appends a
\* row whose set columns hold the set values and whose other columns are
\* empty cells, adds the key to the index, and removes the setter from the
\* unfinished-setters table.
C12_FinalizePartial ==
  (wstate = "open" /\ columns # None) =>
    \A sid \in PendingSetters :
      ~IdxContains(index, setters[sid].key) =>
        LET r == finalize(W, sid) IN
          /\ r.err = "ok"
          /\ r.w.nrows = nrows + 1
          /\ Len(r.w.written) = Len(written) + 1
          /\ r.w.written[Len(r.w.written)].key = setters[sid].key
          /\ r.w.written[Len(r.w.written)].item = CellsOf(setters[sid].data)
          /\ IdxContains(r.w.index, setters[sid].key)
          /\ IdxGet(r.w.index, setters[sid].key) = r.w.written[Len(r.w.written)].offsets
          /\ ~DictHas(r.w.unfinished_setters, setters[sid].key)
          /\ r.w.setters[sid].finalized

----------------------------------------------------------------------------
(* Items and names that do not fit the columns *)

\* items that do not fit the columns a, b: dicts with a key that is no
\* column, tuples of another length, an object without the attributes
MismatchItems(k) ==
  { DictItem([ c \in { "a", "z" } |-> CellA(k) ]),
    DictItem([ c \in { "z" } |-> CellA(k) ]),
    DictItem([ c \in { "a", "b", "z" } |-> CellA(k) ]),
    TupleItem(<< CellA(k) >>),
    TupleItem(<< CellA(k), CellB(k), CellA(k) >>),
    ValueItem(CellA(k)) }

\* items that fit the columns a, b
FittingItems(k) ==
  { DictItem([ c \in { "a", "b" } |-> IF c = "a" THEN CellA(k) ELSE CellB(k) ]),
    DictItem([ c \in { "b" } |-> CellB(k) ]),
    TupleItem(<< CellA(k), CellB(k) >>) }

\* two outcomes agree on the exception, the row index, the file, the append
\* position and the rows appended
SameOutcome(x, y) ==
  /\ x.err = y.err
  /\ x.w.index = y.w.index /\ x.w.disk = y.w.disk /\ x.w.pos = y.w.pos
  /\ x.w.nrows = y.w.nrows /\ x.w.written = y.w.written

\* valid insertions into the writer w behave as they do in the current state
InsertsAsNow(w) ==
  /\ \A k \in RowKeys : \A item \in FittingItems(k) :
       SameOutcome(WFDD_setitem(w, k, item), WFDD_setitem(W, k, item))
  /\ \A k \in RowKeys, name \in { "a", "b" }, value \in AssignValues :
       SameOutcome(WriterAssign(w, k, name, value), WriterAssign(W, k, name, value))

\* C13: in a writer with columns, writer[k] = item raises an error when item
\* is a mapping with a key that is not a column name, a tuple whose length
\* differs from the number of columns, or an object lacking the column
\* attributes, and assigning a name that is not a column through a setter
\* raises an error; in each case the row index, the payload bytes, the
\* append position and the setter's accumulated values are unchanged, and
\* later valid insertions behave as if the rejected call had not happened.
C13_SchemaMismatch ==
  (wstate = "open" /\ columns # None) =>
    /\ \A k \in RowKeys : \A item \in MismatchItems(k) :
         LET r == WFDD_setitem(W, k, item) IN r.err # "ok" /\ r.w = W
    /\ \A sid \in 1..Len(setters), value \in AssignValues :
         LET r == FDDSetter_setattr(W, sid, "z", value) IN r.err # "ok" /\ r.w = W
    /\ \A k \in RowKeys, value \in AssignValues :
         ~IdxContains(index, k) =>
           LET r == WriterAssign(W, k, "z", value) IN
             /\ r.err = "AttributeError"
             /\ r.w.index = index /\ r.w.disk = disk /\ r.w.pos = pos
             /\ r.w.nrows = nrows /\ r.w.written = written
             /\ SubSeq(r.w.setters, 1, Len(setters)) = setters
             /\ \A sid \in (Len(setters) + 1)..Len(r.w.setters) :
                  r.w.setters[sid].data = EmptyDict
             /\ InsertsAsNow(r.w)

\* an unknown column was assigned through a setter that holds a value: no
\* row exists and none is finalized, so the AttributeError is that of the
\* unknown column, and the setter kept its value
C13_Witness ==
  /\ wstate = "open"
  /\ err = "AttributeError"
  /\ IdxLen(index) = 0 /\ nrows = 0
  /\ \E sid \in PendingSetters : DOMAIN setters[sid].data = { "a" }

----------------------------------------------------------------------------
(* Making and extending splits *)

\* the split names that exist in the writer: the splits it made or loaded,
\* and all_rows
ExistingSplits == { split_to_index[i].k : i \in 1..Len(split_to_index) } \cup { "all_rows" }

\* the index ix lists the rows of the keys rows, in their order, with the
\* offsets the row index has for them
BuiltFrom(ix, rows) ==
  /\ IdxLen(ix) = Len(rows)
  /\ ix.kind = "general" => IdxKeys(ix) = rows
  /\ \A i \in 1..Len(rows) :
       IdxGet(ix, IdxKeys(ix)[i]) = IdxGet(index, rows[i])

\* C14: make_split(name, rows) with overwrite=false for any split name that
\* already exists in the writer (a split made earlier in the session, a
\* split loaded by reopen, or all_rows) raises an error and leaves every
\* split and the row index unchanged; with overwrite=true the split is
\* replaced by one built from rows.
C14_OverwriteNeedsFlag ==
  wstate = "open" =>
    \A split \in ExistingSplits, rows \in FileRowLists, kl \in BOOLEAN :
      /\ LET r == make_split(W, split, rows, FALSE, kl, TRUE) IN
           r.err # "ok" /\ r.w = W
      /\ LET r == make_split(W, split, rows, TRUE, kl, TRUE) IN
           /\ r.err = "ok"
           /\ IF split = "all_rows" THEN BuiltFrom(r.w.index, rows)
              ELSE BuiltFrom(DictGet(r.w.split_to_index, split), rows)

\* the splits the writer made or loaded
MadeSplits == { split_to_index[i].k : i \in 1..Len(split_to_index) }

\* C15: add_to_split(name, rows), for an existing split of any of the three
\* index variants and any list of keys present in the row index, leaves the
\* split with the old keys together with rows, every added key mapped to
\* the offsets the row index has for it, and the keys already in the split
\* at their position; on a name that is not a split it raises an error and
\* leaves all splits unchanged.
C15_AddToSplit ==
  wstate = "open" =>
    /\ \A split \in MadeSplits, k \in RowKeys :
         IdxContains(index, k) =>
           LET old == DictGet(split_to_index, split)
               r == add_to_split(W, split, << k >>)
               new == DictGet(r.w.split_to_index, split)
           IN  /\ r.err = "ok"
               /\ SeqToSet(IdxKeys(new)) = SeqToSet(IdxKeys(old)) \cup { k }
               /\ SubSeq(IdxKeys(new), 1, IdxLen(old)) = IdxKeys(old)
               /\ IdxGet(new, k) = IdxGet(index, k)
               /\ \A j \in SeqToSet(IdxKeys(old)) \ { k } : IdxGet(new, j) = IdxGet(old, j)
    /\ \A split \in SplitNames \ MadeSplits, k \in RowKeys :
         LET r == add_to_split(W, split, << k >>) IN
           r.err = "ValueError" /\ r.w = W

----------------------------------------------------------------------------
(* Order of iteration *)

\* the keys in the order in which their rows were appended
WrittenKeys == [ i \in 1..Len(written) |-> written[i].key ]

Ascending(q) == \A i, j \in 1..Len(q) : i < j => q[i] < q[j]

\* C16: with the default general index the keys of all_rows iterate in the
\* order in which their rows were finalized, a general split iterates in
\* the order of the key list given to make_split, and a sorted-comparable
\* split iterates in ascending key order.
C16_OrderPreserved ==
  wstate = "closed" =>
    /\ Reader.ok
    /\ Reader.index.kind = "general" => IdxKeys(Reader.index) = WrittenKeys
    /\ \A s \in FileSplits \ { "all_rows" } :
         LET ix == load_indices(disk, s).index IN
           /\ ix.kind = "general" => IdxKeys(ix) = DictGet(hsplits, s).rows
           /\ ix.kind = "comparable" =>
                /\ Ascending(IdxKeys(ix))
                /\ SeqToSet(IdxKeys(ix)) = SeqToSet(DictGet(hsplits, s).rows)

----------------------------------------------------------------------------
(* Split expressions of the reader *)

\* the split expressions A+B and A+B+C over the splits of the closed file
PlusExprs ==
  { << a, b >> : a \in FileSplits, b \in FileSplits }
    \cup { << a, b, c >> : a \in FileSplits, b \in FileSplits, c \in FileSplits }

\* the operands of the expression e, loaded one by one
Operands(e) == [ i \in 1..Len(e) |-> load_indices(disk, e[i]) ]

SameVariant(ops) == \A i \in 1..Len(ops) : ops[i].index.kind = ops[1].index.kind

\* the last of the operands ops that contains the key k
LastWith(ops, k) ==
  ops[CHOOSE i \in 1..Len(ops) :
        /\ IdxContains(ops[i].index, k)
        /\ \A j \in (i + 1)..Len(ops) : ~IdxContains(ops[j].index, k)]

\* the offset tuples of the rows of an index
RowsOfIndex(ix) == { IdxItems(ix)[i].v : i \in 1..IdxLen(ix) }

KeysOfExpr(e) == SeqToSet(IdxKeys(load_indices_plus(disk, e).index))

----------------------------------------------------------------------------
(* The variant of a split *)

\* the variant the flags of make_split ask for
VariantOf(keyless, preserve_order) ==
  IF keyless THEN "keyless" ELSE IF ~preserve_order THEN "comparable" ELSE "general"

\* the key lists tried: no key, the first key, every key
VariantRowLists == { << >>, FirstKey, IdxKeys(index) }

\* the file that close leaves after splits s and t were made with the same
\* flags over the key lists rs and rt
TwoSplits(rs, rt, kl, po) ==
  close(make_split(make_split(W, "s", rs, FALSE, kl, po).w, "t", rt, FALSE, kl, po).w)

\* C18: make_split chooses the index variant from its flags alone:
\* keyless=true yields a keyless split; keyless=false with
\* preserve_order=false a sorted-comparable split for every list of
\* comparable keys, the empty list included; otherwise a general split;
\* hence two splits made with the same flags have the same variant and can
\* be combined with the + split expression.
C18_VariantFromFlags ==
  (wstate = "open" /\ MadeSplits = {} /\ unfinished_setters = << >>) =>
    \A kl, po \in BOOLEAN :
      /\ \A rows \in VariantRowLists :
           LET r == make_split(W, "s", rows, FALSE, kl, po) IN
             /\ r.err = "ok"
             /\ DictGet(r.w.split_to_index, "s").kind = VariantOf(kl, po)
      /\ \A rs, rt \in VariantRowLists :
           LET c == TwoSplits(rs, rt, kl, po) IN
             /\ c.err = "ok"
             /\ load_indices_plus(c.w.disk, << "s", "t" >>).ok

----------------------------------------------------------------------------
(* Filtering and re-keying a loaded split *)

\* the names a split expression is tried with
SourceSplits == { "all_rows", "s", "t" }

\* the keys of index ix whose row satisfies predicate p, in the order of ix
KeptKeys(src, p) ==
  SelectSeq(IdxKeys(src.index), LAMBDA k : filter_function(p, RFDD_getitem(disk, src, k)))

\* of the kept keys, those whose row is the first to compute its new key,
\* each with that new key
FirstOfKey(src, kept, fn) ==
  LET nk == [ i \in 1..Len(kept) |-> row_to_key(fn, RFDD_getitem(disk, src, kept[i])) ]
  IN  SelectSeq([ i \in 1..Len(kept) |-> [ k |-> kept[i], nk |-> nk[i],
                                           first |-> \A j \in 1..(i - 1) : nk[j] # nk[i] ] ],
                LAMBDA e : e.first)

\* index new holds exactly the keys of q, in that order, with the offsets
\* the source has for them
HoldsInOrder(new, src, q) ==
  /\ new.kind = "general"
  /\ IdxKeys(new) = [ i \in 1..Len(q) |-> q[i].nk ]
  /\ \A i \in 1..Len(q) : IdxGet(new, q[i].nk) = IdxGet(src.index, q[i].k)

----------------------------------------------------------------------------
(* The access paths of a reader *)

\* the keys looked up: the row keys and one key no row is written under
LookupKeys == RowKeys \cup { MaxRows + 1 }

\* C20: the cell access paths of a reader agree: for every key k of the
\* loaded index and every column c at position i, reader[k].c, reader[k][c],
\* reader[k][i] and the pair lookup reader[(k, c)] return the same value,
\* also for the cells that are empty; a key that is neither in the index
\* nor such a pair raises a key-not-found error.
C20_AccessPathsAgree ==
  (wstate = "closed" /\ Reader.ok /\ Reader.columns # None /\ Reader.index.kind = "general") =>
    \A k \in LookupKeys :
      IF IdxContains(Reader.index, k)
      THEN \A i \in 1..Len(The(Reader.columns)) :
             LET c == The(Reader.columns)[i]
                 cell == FDDReadRow_getitem(disk, Reader, IdxGet(Reader.index, k), i - 1)
             IN  /\ FDDReadRow_getattr(disk, Reader, IdxGet(Reader.index, k), c) = cell
                 /\ FDDReadRow_getitem_name(disk, Reader, IdxGet(Reader.index, k), c) = cell
                 /\ RFDD_getitem_pair(disk, Reader, k, c) = cell
      ELSE /\ ReadRow(k) = << ErrVal("KeyError") >>
           /\ \A i \in 1..Len(The(Reader.columns)) :
                RFDD_getitem_pair(disk, Reader, k, The(Reader.columns)[i]) = ErrVal("KeyError")

----------------------------------------------------------------------------
(* The row cache of a reader *)

\* a reader with columns is open on the file
ReaderOpen == reader.state = "open" /\ reader.columns # None

\* the reader that the statement reader[k].name = v leaves
AfterAssign(r, k, name, v) ==
  OnView(RFDDImpl_getitem(disk, r, k),
         View_setattr(disk, RFDDImpl_getitem(disk, r, k).r, name, v))

\* what reader[k].name returns on reader r over file f
ReadCell(f, r, k, name) ==
  OnView(RFDDImpl_getitem(f, r, k), View_getattr(f, RFDDImpl_getitem(f, r, k).r, name)).out

\* reader[k] on r returns the view that r has cached, untouched
SameView(f, r, k) ==
  /\ RFDDImpl_getitem(f, r, k).out = << "view" >>
  /\ RFDDImpl_getitem(f, r, k).r.read_row_cache = r.read_row_cache

\* reader[k] on r returns a new view with nothing loaded, whose cells read as
\* the file holds them
FreshView(f, r, k) ==
  LET g == RFDDImpl_getitem(f, r, k) IN
    /\ g.out = << "view" >>
    /\ r.read_row_cache # None => The(g.r.read_row_cache).id # The(r.read_row_cache).id
    /\ \A i \in 1..Len(The(r.columns)) :
         View_getitem(f, g.r, The(g.r.read_row_cache), i - 1).out
           = FDDReadRow_getitem(f, r, IdxGet(r.index, k), i - 1)

\* C21: the reader caches one row view: two accesses reader[k] with no access
\* to another key in between return the same view object, so a cell value
\* assigned to the view is returned by the next reader[k]; an access to
\* another key replaces the cached view, after which reader[k] returns a
\* fresh view holding the values stored in the file.
C21_RowCache ==
  ReaderOpen =>
    \A k \in RowKeys :
      IdxContains(reader.index, k) =>
        /\ (reader.cashed_read_row_key = Some(k)) => SameView(disk, reader, k)
        /\ \A name \in SeqToSet(The(reader.columns)), v \in ViewValues :
             LET a == AfterAssign(reader, k, name, v) IN
               ~Raised(a.out) =>
                 /\ SameView(a.disk, a.r, k)
                 /\ ReadCell(a.disk, a.r, k, name) = v
                 /\ \A k2 \in RowKeys \ { k } :
                      IdxContains(reader.index, k2) =>
                        FreshView(a.disk, RFDDImpl_getitem(a.disk, a.r, k2).r, k)

----------------------------------------------------------------------------
(* Properties of the writer *)

\* the names a property is given, and the values
TriedNames == PropNames \cup InheritedNames
TriedValues == { 1, 2 }

\* what reader.name gives on a reader opened on the file that closing writer
\* w leaves
ClosedAttr(w, name) == RFDD_attr(close(w).w.disk, RFDD_init(close(w).w.disk, << "all_rows" >>, FALSE), name).out

\* writer w holds the properties of its map and no other, and so does the
\* reader of the file it closes to
HoldsProperties(w) ==
  \A n \in TriedNames :
    LET expected == IF DictHas(w.custom_properties, n)
                    THEN << "int", DictGet(w.custom_properties, n) >>
                    ELSE ErrVal("AttributeError")
    IN  /\ WFDD_attr(w, n) = expected
        /\ close(w).err = "ok" => ClosedAttr(w, n) = expected

\* C22: for any property name, after any sequence of assignments
\* writer.name = v and deletions del writer.name, reading writer.name returns
\* the last value assigned if the name was not deleted afterwards; the value
\* is kept in the properties map and not as an attribute of the object; after
\* close a reader returns exactly those last values and raises an attribute
\* error for the names deleted or never set.
C22_WriterProperties ==
  wstate = "open" =>
    /\ HoldsProperties(W)
    /\ \A name \in TriedNames, v \in TriedValues :
         LET w1 == WFDD_setattr(W, name, v) IN
           /\ w1 = [ W EXCEPT !.custom_properties = w1.custom_properties ]
           /\ DictHas(w1.custom_properties, name)
           /\ DictGet(w1.custom_properties, name) = v
           /\ HoldsProperties(w1)
           /\ BaseFDD_delattr(w1, name).err = "ok"
           /\ ~DictHas(BaseFDD_delattr(w1, name).w.custom_properties, name)
           /\ HoldsProperties(BaseFDD_delattr(w1, name).w)
    /\ \A name \in InstanceNames, b \in BOOLEAN :
         LET w1 == WFDD_setattr(W, name, b) IN
           /\ w1 = [ W EXCEPT !.custom_properties = w1.custom_properties ]
           /\ DictHas(w1.custom_properties, name)

----------------------------------------------------------------------------
(* What a reader does to the file *)

\* C23: a reader opened without allow_cell_modification never changes the
\* file: after any sequence of its operations (row and cell reads, cell
\* assignment on a row view by name or by position, property read,
\* assignment and deletion, load_new_split, load_keys, filter) every byte of
\* the file is as it was when the reader was opened.
C23_ReaderNeverWrites ==
  (reader.state = "open" /\ ~reader.allow_cell_modification) => disk = reader.file0

\* a reader that was used: a property was assigned, the keys were reloaded
\* to another order, and the cached view holds an assigned value that the
\* file does not hold in that cell
C23_Witness ==
  /\ reader.state = "open"
  /\ ~reader.allow_cell_modification
  /\ DictHas(reader.attrs, "p")
  /\ IdxKeys(reader.index) = << 2, 1 >>
  /\ reader.read_row_cache # None
  /\ The(reader.read_row_cache).cache[1] = Str(<< 67 >>)
  /\ read_chunk(disk, The(reader.read_row_cache).index[1], The(reader.read_row_cache).index[2]) # << 67 >>
  /\ disk = reader.file0

\* the bytes f with the range [start, end) replaced by data
Patched(f, start, end, data) ==
  [ j \in 1..Len(f) |-> IF start < j /\ j <= end THEN data[j - start] ELSE f[j] ]

\* C24: with allow_cell_modification=true, assigning view.name = v where
\* the encoded length of v equals the length of the existing cell rewrites
\* exactly the bytes of that cell and leaves every other byte of the file and
\* the file position unchanged; assigning a value whose encoded length
\* differs raises a size-mismatch error and leaves every byte of the file
\* unchanged.
C24_CellOverwrite ==
  (ReaderOpen /\ reader.allow_cell_modification) =>
    \A k \in RowKeys :
      IdxContains(reader.index, k) =>
        \A i \in 1..Len(The(reader.columns)), v \in ViewValues :
          LET codec == The(reader.column_to_deserialize)[i]
              start == IdxGet(reader.index, k)[i]
              end == IdxGet(reader.index, k)[i + 1]
              res == AfterAssign(reader, k, The(reader.columns)[i], v)
          IN  ~(codec = "str" /\ v = NoneVal) =>
                IF Len(type_to_serializer(codec, v)) = end - start
                THEN /\ ~Raised(res.out)
                     /\ res.disk = Patched(disk, start, end, type_to_serializer(codec, v))
                     /\ res.r.fpos = reader.fpos
                ELSE /\ res.out = ErrVal("ValueError")
                     /\ res.disk = disk
                     /\ res.r.fpos = reader.fpos

\* a reader that allows cell modification, after a cell was overwritten: the
\* file holds 'C' in a cell a, which no writer wrote there, and a longer value
\* is refused for that cell
C24_Witness ==
  /\ ReaderOpen
  /\ reader.allow_cell_modification
  /\ \E k \in RowKeys :
       /\ IdxContains(reader.index, k)
       /\ read_chunk(disk, IdxGet(reader.index, k)[1], IdxGet(reader.index, k)[2]) = << 67 >>
       /\ CellA(k) # Str(<< 67 >>)
       /\ \E v \in ViewValues : AfterAssign(reader, k, "a", v).out = ErrVal("ValueError")

----------------------------------------------------------------------------
(* Rows copied from a view *)

\* a reader holds a view of a row, and a writer with the same columns is
\* open on the second path
CopyReady ==
  /\ reader.state = "open"
  /\ reader.columns # None
  /\ reader.read_row_cache # None
  /\ dest.state = "open"

\* the bytes of cell i (from 1) of the row of k in the writer w
CellBytes(w, k, i) == read_chunk(w.disk, IdxGet(w.index, k)[i], IdxGet(w.index, k)[i + 1])

\* the encoding of v under codec t; None is stored as a cell without bytes
Encoded(t, v) == IF v = NoneVal THEN << >> ELSE type_to_serializer(t, v)

\* what a reader of the file the writer w closes returns for row k, cell name
ReadBack(w, k, name) ==
  FDDReadRow_getattr(close(w).w.disk, load_indices(close(w).w.disk, "all_rows"),
                     IdxGet(load_indices(close(w).w.disk, "all_rows").index, k), name)

\* writer2[k2] = view copied every cell of a view nothing was done to
CopiesVerbatim(res, k2, v, src) ==
  /\ res.err = "ok"
  /\ \A i \in 1..Len(v.cache) : CellBytes(res.w, k2, i) = read_chunk(src, v.index[i], v.index[i + 1])

\* writer2[k2] = view after view.name = value: the cell of name holds the
\* encoding of value and reads back as value, a cell whose value the view
\* holds is encoded again, and any other holds the bytes of the source
CopiesModified(res, k2, v, src, name, value) ==
  /\ res.err = "ok"
  /\ \A i \in 1..Len(v.cache) :
       CellBytes(res.w, k2, i) =
         IF i = PosOf(The(dest.w.columns), name)
         THEN Encoded(The(dest.w.column_to_serialize)[i], value)
         ELSE IF v.cache[i] # NoneVal
         THEN Encoded(The(dest.w.column_to_serialize)[i], v.cache[i])
         ELSE read_chunk(src, v.index[i], v.index[i + 1])
  /\ ReadBack(res.w, k2, name) = ReadsAs(The(dest.w.column_to_serialize)[PosOf(The(dest.w.columns), name)], value)

\* C25: a row view copied with writer[k2] = view leaves, for every column,
\* the encoding of the view's value in the destination cell when a value was
\* assigned to or read through the view, and the raw bytes of the source
\* cell otherwise: an untouched view is copied verbatim, and a view with
\* modified cells reads back the modified values in those cells.
C25_RowCopy ==
  CopyReady =>
    \A k2 \in RowKeys :
      ~IdxContains(dest.w.index, k2) =>
        /\ CopiesVerbatim(WFDD_setitem_row(dest.w, k2,
                                           FDDReadRow(The(reader.read_row_cache).index, 0), disk),
                          k2, FDDReadRow(The(reader.read_row_cache).index, 0), disk)
        /\ \A name \in { "a", "b" }, value \in ViewValues :
             ~Raised(View_setattr(disk, reader, name, value).out) =>
               CopiesModified(WFDD_setitem_row(dest.w, k2,
                                The(View_setattr(disk, reader, name, value).r.read_row_cache),
                                View_setattr(disk, reader, name, value).disk),
                              k2, The(View_setattr(disk, reader, name, value).r.read_row_cache),
                              View_setattr(disk, reader, name, value).disk, name, value)

----------------------------------------------------------------------------
(* Reads of an open writer *)

\* the rows of the history that the row index of the open writer holds
FinalizedRows == { i \in 1..Len(written) : IdxContains(index, written[i].key) }

\* C26: before close, writer[k] for a finalized key returns the values that
\* were written for k, and no read (the value of a schemaless writer, the
\* creation of a row view, the read of a cell) changes the append position
\* or anything else of the writer, so that what is inserted afterwards and
\* the closed file are as if no read had happened.
C26_ReadsBetweenWrites ==
  wstate = "open" =>
    \A i \in FinalizedRows :
      IF columns = None
      THEN /\ WFDD_getitem_value(W, written[i].key).w = W
           /\ WFDD_getitem_value(W, written[i].key).out = written[i].item[1]
      ELSE /\ WFDD_getitem_value(W, written[i].key) = [ w |-> W, out |-> << "view" >> ]
           /\ \A c \in 1..Len(The(columns)) :
                /\ WFDD_row_getattr(W, written[i].key, The(columns)[c]).w = W
                /\ WFDD_row_getattr(W, written[i].key, The(columns)[c]).out = written[i].item[c]

----------------------------------------------------------------------------
(* The end of a with-block *)

\* C27: when the body of a with-block over a writer ends, normally or by an
\* exception, close is run: the file has a valid trailer and a reader finds
\* every row finalized before the exit and every row pending in a setter.
C27_ScopedClose ==
  wstate = "open" =>
    \A exc \in BodyOutcomes :
      /\ close(W).err = "ok"
      /\ BaseFDD_exit(W, exc).err = exc
      /\ load_indices(BaseFDD_exit(W, exc).w.disk, "all_rows").ok
      /\ \A i \in FinalizedRows :
           IdxContains(load_indices(BaseFDD_exit(W, exc).w.disk, "all_rows").index,
                       written[i].key)
      /\ \A sid \in PendingSetters :
           IdxContains(load_indices(BaseFDD_exit(W, exc).w.disk, "all_rows").index,
                       setters[sid].key)

----------------------------------------------------------------------------
(* Opening a path with and without a file *)

\* a writer that may neither overwrite nor reopen is refused on a path with
\* a file, and the file stays as it is
RefusesExisting(overwrite, reopen) ==
  (~overwrite /\ ~reopen /\ exists) =>
    (err' = "FileExistsError" /\ exists' /\ disk' = disk /\ wstate' = wstate)

\* a writer that is to reopen is refused on a path without a file, and
\* makes none
RefusesMissing(reopen) ==
  (reopen /\ ~exists) => (err' = "FileNotFoundError" /\ ~exists' /\ disk' = disk)

\* nothing of the previous content is left
Discards == disk' = << >> /\ pos' = 0 /\ IdxLen(index') = 0 /\ split_to_index' = << >>

\* a reader of the closed file finds the keys the writers have entered since
\* the file was last created, and no others
OnlyOwnKeys ==
  (wstate = "closed" /\ Reader.ok) =>
    SeqToSet(IdxKeys(Reader.index)) = { written[i].key : i \in 1..Len(written) }

\* C28 as stated: a writer with overwrite=false and reopen=false on an
\* existing path raises file-exists and leaves the bytes unchanged; a writer
\* with reopen=true, or a reader, on a nonexistent path raises file-not-found
\* and creates no file; a writer with overwrite=true on an existing file
\* discards all previous content, whatever reopen is.
C28_AsStated ==
  /\ [][ \A overwrite, reopen \in BOOLEAN :
           OpenWith(Some(ColAB), overwrite, reopen) =>
             /\ RefusesExisting(overwrite, reopen)
             /\ RefusesMissing(reopen)
             /\ (overwrite /\ exists) => Discards ]_vars
  /\ [][ (\E acm \in BOOLEAN : ROpenMissing(acm)) =>
           (err' = "FileNotFoundError" /\ ~exists' /\ disk' = disk) ]_vars
  /\ [] OnlyOwnKeys

\* C28: a writer with overwrite=false and reopen=false on an existing path
\* raises file-exists and leaves the bytes unchanged; a writer with
\* reopen=true, or a reader, on a nonexistent path raises file-not-found and
\* creates no file; a writer with overwrite=true and reopen=false on an
\* existing file discards all previous content, so that a reader afterwards
\* finds only the keys of the new writer; with reopen=true the file is
\* reopened and its rows are kept, whatever overwrite is.
C28_OpenModes ==
  /\ [][ \A overwrite, reopen \in BOOLEAN :
           OpenWith(Some(ColAB), overwrite, reopen) =>
             /\ RefusesExisting(overwrite, reopen)
             /\ RefusesMissing(reopen)
             /\ (overwrite /\ ~reopen /\ exists) => Discards
             /\ (reopen /\ exists) => (err' = "ok" /\ IdxKeys(index') = IdxKeys(index)) ]_vars
  /\ [][ (\E acm \in BOOLEAN : ROpenMissing(acm)) =>
           (err' = "FileNotFoundError" /\ ~exists' /\ disk' = disk) ]_vars
  /\ [] OnlyOwnKeys

\* a writer was refused on a closed file with rows
C28_Witness ==
  /\ err = "FileExistsError"
  /\ wstate = "closed"
  /\ IdxLen(Reader.index) > 0

----------------------------------------------------------------------------
(* Reads of parent and child after a fork *)

\* the value of the first cell of row k as a process alone reads it
ForkExpected(k) ==
  IF ForkCodec = None
  THEN Unpickle(read_chunk(disk, IdxGet(ForkIndex, k)[1], IdxGet(ForkIndex, k)[2]))
  ELSE type_to_deserializer(The(ForkCodec)[1],
                            read_chunk(disk, IdxGet(ForkIndex, k)[1], IdxGet(ForkIndex, k)[2]))

\* C29: after a fork every live reader and every live writer has, in the
\* child, a descriptor of its own that shares no offset with the parent's,
\* so that for any interleaving of the seek and read steps of parent and
\* child every read of a key returns the value it had before the fork.
C29_ForkSafety ==
  fork.state = "forked" =>
    /\ fork.fd["child"] # fork.fd["parent"]
    /\ \A p \in Procs :
         fork.got[p] # << >> => fork.got[p][2] = ForkExpected(fork.got[p][1])

----------------------------------------------------------------------------
(* Lookup in a multi-reader *)

\* the lists of splits a multi-reader is opened on
CombinedSplits == { << "s", "t" >>, << "t", "s" >>, << "all_rows", "s" >>, << "s", "t", "s" >> }

\* the multi-readers that can be opened on the closed file
Combined ==
  { RFDDCombined_init(disk, sp) :
      sp \in { q \in CombinedSplits : \A j \in 1..Len(q) : load_indices(disk, q[j]).ok } }

\* the first constituent whose cumulative length exceeds i
FirstBeyond(c, i) == CHOOSE j \in 1..Len(c.rfdds) : SumLen(c, j) > i /\ SumLen(c, j - 1) <= i

\* the constituents that contain k
Holders(c, k) == { j \in 1..Len(c.rfdds) : IdxContains(c.rfdds[j].index, k) }

FirstHolder(c, k) == CHOOSE j \in Holders(c, k) : \A h \in Holders(c, k) : j <= h

\* how often keys() yields k
Yields(c, k) == Cardinality({ i \in 1..Len(RFDDCombined_keys(c)) : RFDDCombined_keys(c)[i] = k })

\* C30: the length of a multi-reader is the sum of the lengths of its
\* constituents; when every constituent is keyless, get(i) for i in
\* 0..len-1 is row i minus the lengths of the constituents before j of
\* constituent j, the first whose cumulative length exceeds i, and any other
\* i raises KeyError; when the constituents are keyed, get(k) is the row of
\* the first constituent that contains k, and keys() yields every key for
\* which get succeeds exactly once.
C30_MultiReader ==
  wstate = "closed" =>
    \A c \in Combined :
      /\ RFDDCombined_len(c) = SumLen(c, Len(c.rfdds))
      /\ c.all_keyless =>
           \A i \in (-1)..(RFDDCombined_len(c) + 1) :
             RFDDCombined_getitem(disk, c, i) =
               IF i >= 0 /\ i < RFDDCombined_len(c)
               THEN RFDD_getitem(disk, c.rfdds[FirstBeyond(c, i)],
                                 i - SumLen(c, FirstBeyond(c, i) - 1))
               ELSE << ErrVal("KeyError") >>
      /\ (\A j \in 1..Len(c.rfdds) : c.rfdds[j].index.kind # "keyless") =>
           \A k \in LookupKeys :
             /\ RFDDCombined_getitem(disk, c, k) =
                  IF Holders(c, k) # {}
                  THEN RFDD_getitem(disk, c.rfdds[FirstHolder(c, k)], k)
                  ELSE << ErrVal("KeyError") >>
             /\ Yields(c, k) = IF Holders(c, k) # {} THEN 1 ELSE 0

----------------------------------------------------------------------------
(* The warning of a multi-reader *)

\* the constituents of c whose loaded split is keyless
KeylessOnes(c) == { j \in 1..Len(c.rfdds) : c.rfdds[j].index.kind = "keyless" }

\* C31: a multi-reader warns at construction exactly when its constituents
\* mix keyless and keyed splits: at least one loaded split is keyless and at
\* least one is keyed; it does not warn when all are keyless or all keyed.
C31_MixWarning ==
  wstate = "closed" =>
    \A c \in Combined :
      c.warned <=> (KeylessOnes(c) # {} /\ KeylessOnes(c) # 1..Len(c.rfdds))

----------------------------------------------------------------------------
(* A column added to a closed file *)

Added == dest.state = "added"

\* readers on the source file and on the file add_column left
Source == load_indices(disk, "all_rows")
Destination == load_indices(dest.res.disk, "all_rows")

DataKeys == { dest.column_data[i].k : i \in 1..Len(dest.column_data) }
DataOf(k) == dest.column_data[CHOOSE i \in 1..Len(dest.column_data) :
                                dest.column_data[i].k = k].v

\* the row of key k is in the destination: the old offsets moved and one
\* more, the old cells byte for byte, and the new cell reads as data[k]
RowCarried(k) ==
  /\ IdxContains(Destination.index, k)
  /\ LET o == IdxGet(Source.index, k)
         n == IdxGet(Destination.index, k)
     IN  /\ Len(n) = Len(o) + 1
         /\ \A i \in 1..Len(o) : n[i] - n[1] = o[i] - o[1]
         /\ n[Len(n)] - n[Len(o)]
              = Len(type_to_serializer(dest.column_type, DataOf(k)))
         /\ \A i \in 1..(Len(o) - 1) :
              read_chunk(dest.res.disk, n[i], n[i + 1]) = read_chunk(disk, o[i], o[i + 1])
         /\ FDDReadRow_getattr(dest.res.disk, Destination, n, dest.column_name) = DataOf(k)

\* every split of the source is a split of the destination with its keys
SplitsCarried ==
  \A e \in SeqToSet(Tagged(ReadIndexIndex(disk).ii, "_split_")) :
    LET d == get_split_object(dest.res.disk, ReadIndexIndex(dest.res.disk).ii, e.name)
    IN  /\ d.ok
        /\ SeqToSet(IdxKeys(d.ix))
             = SeqToSet(IdxKeys(LoadSplitObject(disk, ReadIndexIndex(disk).ii, e)))

PropsCarried ==
  SeqToSet(LoadProps(disk, ReadIndexIndex(disk).ii))
    \subseteq SeqToSet(LoadProps(dest.res.disk, ReadIndexIndex(dest.res.disk).ii))

\* C32: add_column with a value for every key of the source leaves a file
\* that holds every row of the source under its key, with the bytes of the
\* old cells, one more cell that reads as data[key] and the old offsets
\* moved and extended, every split of the source with its keys and every
\* property with its value; with the name of an existing column it raises
\* and creates no file
C32_AddColumn ==
  Added =>
    IF dest.column_name \in SeqToSet(The(Source.columns))
    THEN dest.res.err # "ok" /\ ~dest.res.created
    ELSE DataKeys = SeqToSet(IdxKeys(Source.index)) =>
           /\ dest.res.err = "ok"
           /\ \A k \in DataKeys : RowCarried(k)
           /\ SplitsCarried
           /\ PropsCarried

----------------------------------------------------------------------------
(* A closed writer *)

\* C33: once the writer is closed, every insertion writer[k] = item, every
\* assignment writer[k].name = value, whether it completes a row or not, and
\* every further close() raises, and the bytes of the file stay as they are
C33_NoWritesAfterClose ==
  wstate = "closed" =>
    /\ \A k \in RowKeys : \A item \in Items(k) :
         /\ setitem_after_close(W, k, item).err # "ok"
         /\ setitem_after_close(W, k, item).w.disk = disk
    /\ \A k \in RowKeys, name \in AssignNames, value \in AssignValues :
         /\ assign_after_close(W, k, name, value).err # "ok"
         /\ assign_after_close(W, k, name, value).w.disk = disk
    /\ close_after_close(W).err # "ok"
    /\ close_after_close(W).w.disk = disk

----------------------------------------------------------------------------
(* Where the rows lie in a closed file *)

\* the offset tuples of the index ix
OffsetsIn(ix) == { IdxGet(ix, k) : k \in SeqToSet(IdxKeys(ix)) }

\* the offset tuples of all_rows and of every other split of the file, and
\* of every row the writers of the file have written
FileOffsets ==
  UNION { OffsetsIn(LoadSplitObject(disk, Trailer.ii, e)) :
            e \in SeqToSet(Tagged(Trailer.ii, "_split_")) }
    \cup { written[i].offsets : i \in 1..Len(written) }

\* the ranges of the sections of the file, of the section table and of the
\* trailer
MetadataRanges ==
  { << Trailer.ii[i].start, Trailer.ii[i].end >> : i \in 1..Len(Trailer.ii) }
    \cup { << Trailer.start, Len(disk) - TrailerLen >>,
           << Len(disk) - TrailerLen, Len(disk) >> }

Monotone(o) == \A i \in 1..(Len(o) - 1) : o[i] <= o[i + 1]

Apart(o, s) == o[Len(o)] <= s[1] \/ s[2] <= o[1]

\* C34: in a closed file, after reopen-and-close cycles too, the offsets of
\* every row ascend, the rows the writers wrote lie one after the other in
\* the order they were finalized in, and no row overlaps a section, the
\* section table or the trailer of the file
C34_RowOffsets ==
  wstate = "closed" =>
    /\ \A o \in FileOffsets : Monotone(o)
    /\ \A i, j \in 1..Len(written) :
         i < j => written[i].offsets[Len(written[i].offsets)] <= written[j].offsets[1]
    /\ \A o \in FileOffsets, s \in MetadataRanges : Apart(o, s)

\* a file closed by a reopening writer that holds a row of each session
C34_Witness ==
  /\ wstate = "closed"
  /\ session = 2
  /\ Len(written) = 2
  /\ IdxLen(index) = 2
  /\ written[1].offsets[1] < written[2].offsets[1]
  /\ custom_properties # << >>

----------------------------------------------------------------------------
(* Where a reopened writer goes on *)

\* the end of the last row the writers of the file wrote
EndOfRows ==
  IF written = << >> THEN 0
  ELSE written[Len(written)].offsets[Len(written[Len(written)].offsets)]

\* C35: a writer just opened with reopen=True stands at the smallest start
\* among the sections of the file (column definition, properties, splits,
\* column list) and its section table, which is the end of the last row; so
\* in a closed file each row the writers wrote begins where the row before
\* it ends, with no bytes of old metadata between them
C35_ReopenResumes ==
  /\ (wstate = "open" /\ fresh) =>
       /\ pos = MinStart(Trailer.ii, Trailer.start)
       /\ pos = EndOfRows
  /\ wstate = "closed" =>
       \A i \in 1..(Len(written) - 1) :
         written[i].offsets[Len(written[i].offsets)] = written[i + 1].offsets[1]

----------------------------------------------------------------------------
(* The keyless index *)

\* the entries of ix other than entry idx are those of old
OthersKept(old, ix, idx) ==
  \A j \in 0..(IdxLen(old) - 1) : j # idx => FDDIntList(ix, j) = FDDIntList(old, j)

\* C36: on a keyless index of length N, index[N] = val appends one entry,
\* index[i] = val with 0 <= i < N rewrites entry i and nothing else, and any
\* other index raises and leaves the buffer as it is; the buffer is always
\* a whole number of entries, the keys are 0..N-1, and reading an index
\* outside 0..N-1 raises IndexError
C36_KeylessAppendOnly ==
  (wstate = "none" /\ index.byte_width = 1 /\ index.kind = "keyless") =>
    /\ Len(index.buffer) % (index.num_vals * index.byte_width) = 0
    /\ IdxKeys(index) = [ i \in 1..IdxLen(index) |-> i - 1 ]
    /\ \A i \in KeylessIdx :
         (i < 0 \/ i >= IdxLen(index)) <=> KeylessGetItem(index, i) = ErrVal("IndexError")
    /\ \A idx \in KeylessIdx, val \in IndexVals :
         IF idx = IdxLen(index)
         THEN /\ KeylessSetItem(index, idx, val).ok
              /\ Len(KeylessSetItem(index, idx, val).ix.buffer)
                   = Len(index.buffer) + index.num_vals * index.byte_width
              /\ IdxLen(KeylessSetItem(index, idx, val).ix) = IdxLen(index) + 1
              /\ FDDIntList(KeylessSetItem(index, idx, val).ix, idx) = val
              /\ OthersKept(index, KeylessSetItem(index, idx, val).ix, idx)
         ELSE IF 0 <= idx /\ idx < IdxLen(index)
         THEN /\ KeylessSetItem(index, idx, val).ok
              /\ IdxLen(KeylessSetItem(index, idx, val).ix) = IdxLen(index)
              /\ Len(KeylessSetItem(index, idx, val).ix.buffer) = Len(index.buffer)
              /\ FDDIntList(KeylessSetItem(index, idx, val).ix, idx) = val
              /\ OthersKept(index, KeylessSetItem(index, idx, val).ix, idx)
         ELSE /\ ~KeylessSetItem(index, idx, val).ok
              /\ KeylessSetItem(index, idx, val).ix = index

----------------------------------------------------------------------------
(* The general index *)

\* a value the index takes: as many offsets as num_vals, each of which fits
Assignable(ix, val) ==
  Len(val) = ix.num_vals /\ \A i \in 1..Len(val) : FitsIn(val[i], ix.byte_width)

\* C37: on a general index, after assignments index[k] = val that succeeded
\* or failed (a value of the wrong length, an offset that does not fit in
\* byte_width bytes), the buffer holds one slot for each key and the keys
\* are distinct; an assignment that succeeds is read back under its key
\* and leaves every other key with its value, one to an existing key
\* changes neither the keys nor their order, and one that fails leaves keys
\* and buffer as they are
C37_GeneralSlots ==
  (wstate = "none" /\ index.byte_width = 1 /\ index.kind = "general") =>
    /\ Len(index.keys) * index.num_vals * index.byte_width = Len(index.buffer)
    /\ Cardinality(SeqToSet(index.keys)) = Len(index.keys)
    /\ \A k \in GeneralKeys, val \in GeneralVals :
         /\ GeneralSetItem(index, k, val).ok <=> Assignable(index, val)
         /\ IF GeneralSetItem(index, k, val).ok
            THEN /\ IdxGet(GeneralSetItem(index, k, val).ix, k) = val
                 /\ \A j \in SeqToSet(index.keys) \ { k } :
                      IdxGet(GeneralSetItem(index, k, val).ix, j) = IdxGet(index, j)
                 /\ GeneralSetItem(index, k, val).ix.keys
                      = IF k \in SeqToSet(index.keys) THEN index.keys
                        ELSE Append(index.keys, k)
            ELSE GeneralSetItem(index, k, val).ix = index

----------------------------------------------------------------------------
(* Rows of a reader whose index was replaced *)

\* the keys a loaded index can hold: the keys of the rows and the keys
\* computed by the key functions
LoadedKeys == 0..(MaxRows + 2)

\* C38: whatever was read before load_new_split, load_keys or filter
\* replaced the index, reader[k] for a key k of the index now loaded is the
\* row at the offsets that index maps k to
C38_NoStaleRow ==
  (reader.state = "open" /\ reader.columns # None) =>
    \A k \in LoadedKeys :
      IdxContains(reader.index, k) =>
        /\ RFDDImpl_getitem(disk, reader, k).out = << "view" >>
        /\ The(RFDDImpl_getitem(disk, reader, k).r.read_row_cache).index
             = IdxGet(reader.index, k)

----------------------------------------------------------------------------
(* Pending setters and the row index *)

\* C39: in no state of an open writer is a key both in the row index and in
\* unfinished_setters, whatever the order of writer[k], assignments to
\* setters, insertions writer[k] = item, finalize() and make_split; so
\* close() never raises KeyError for a key that exists already while it
\* finalizes the setters
C39_PendingDisjoint ==
  wstate = "open" =>
    /\ \A k \in RowKeys : ~(IdxContains(index, k) /\ DictHas(unfinished_setters, k))
    /\ close(W).err # "KeyError"

----------------------------------------------------------------------------
(* Reads after a rejected overwrite *)

\* reader[k].name = value was refused for its size
SizeRejected(k, name, value) ==
  /\ RFDDImpl_getitem(disk, reader, k).out = << "view" >>
  /\ View_setattr(disk, RFDDImpl_getitem(disk, reader, k).r, name, value).out
       = ErrVal("ValueError")

\* what view.name and reader[k].name return after view.name = value
ReadsAfter(k, name, value) ==
  LET s == View_setattr(disk, RFDDImpl_getitem(disk, reader, k).r, name, value)
  IN  { View_getattr(s.disk, s.r, name).out,
        View_getattr(s.disk, RFDDImpl_getitem(s.disk, s.r, k).r, name).out }

\* C40: with allow_cell_modification, after view.name = v was refused for
\* its size, the cell read through the view and through reader[k] is the
\* value the file holds, as before the assignment
C40_RejectedInvisible ==
  (reader.state = "open" /\ reader.allow_cell_modification /\ reader.columns # None) =>
    \A k \in RowKeys, name \in { "a", "b" }, value \in ViewValues :
      SizeRejected(k, name, value) =>
        /\ View_setattr(disk, RFDDImpl_getitem(disk, reader, k).r, name, value).disk = disk
        /\ ReadsAfter(k, name, value)
             = { FDDReadRow_getattr(disk, reader, IdxGet(reader.index, k), name) }

====
